---- MODULE Spec2Model ----
(***************************************************************************)
(* Model of the nanobot manifest aggregation of treads                    *)
(* (treads/api/nanobot_template_util.py and its copy under                 *)
(* treads/project_template/): load_yaml, adjust_mcp_paths and              *)
(* merge_nanobot_yamls; of the startup hook that calls it                  *)
(* (treads/project_template/app.py); and of the lifespan that launches the *)
(* agents' nanobot processes (treads/api/lifespan.py).                     *)
(*                                                                         *)
(* Python strings are sequences of one-character strings, so that          *)
(* str.endswith, sorted(), f-strings and pathlib's join are computed       *)
(* rather than assumed.  A YAML value is a record tagged by its field t.   *)
(* A Python dict is a sequence of [k, v] entries with distinct keys, in    *)
(* insertion order.  An optional key is a sequence of length 0 or 1.       *)
(***************************************************************************)
EXTENDS Integers, Sequences, FiniteSets, TLC

VARIABLES
    fs,          \* the agents directory: entry name -> what is on disk there
    order,       \* the order AGENTS_DIR.iterdir() yields in the merge loop
    scanOrder,   \* the order AGENTS_DIR.iterdir() yields in the entrypoint loop
    pc,          \* position of merge_nanobot_yamls
    idx,         \* position of the running loop in order / scanOrder
    merged,      \* the local dict merged
    entrypoint,  \* the local entrypoint
    out,         \* the file OUTPUT_YAML
    out0,        \* OUTPUT_YAML as it was when the pass was called
    err,         \* the exception that left merge_nanobot_yamls, if any
    hook,        \* position of the caller: the script, or app.py's lifespan
    calls,       \* how often the caller has called merge_all_configs
    nanobot_process, \* app.py's global nanobot_process
    agentYaml,   \* the local agent_yaml of the running loop
    adjustCalls, \* the calls of adjust_mcp_paths the pass has made so far
    writers,     \* passes that write OUTPUT_YAML at the same time
    agents,      \* api/lifespan.py: the agents given to create_lifespan
    nanobot_processes, \* api/lifespan.py: the global list nanobot_processes
    procs        \* api/lifespan.py: what has happened to each agent's process

\* the state of the project application around the pass
appVars == <<hook, calls, nanobot_process>>

\* the state of the application built by api/fastapp.py
apiVars == <<agents, nanobot_processes, procs>>

vars ==
    <<fs, order, scanOrder, pc, idx, merged, entrypoint, out, out0, err,
      hook, calls, nanobot_process, agentYaml, adjustCalls, writers,
      agents, nanobot_processes, procs>>

----------------------------------------------------------------------------
(* Bounds of the model.                                                    *)

\* number of subordinate agent directories beside "app"
NumSub == 2

\* number of passes that write OUTPUT_YAML at the same time
NumWriters == 2

\* number of agents an application can be given
NumAgents == 3

----------------------------------------------------------------------------
(* Strings.                                                                *)

\* Code point of a character (Python compares str by code point).
Ord(c) ==
    CASE c = "-" -> 45 [] c = "." -> 46 [] c = "/" -> 47
      [] c = "a" -> 97 [] c = "b" -> 98 [] c = "c" -> 99 [] c = "d" -> 100
      [] c = "e" -> 101 [] c = "g" -> 103 [] c = "k" -> 107 [] c = "n" -> 110
      [] c = "o" -> 111 [] c = "p" -> 112 [] c = "r" -> 114 [] c = "s" -> 115
      [] c = "t" -> 116 [] c = "u" -> 117 [] c = "v" -> 118 [] c = "w" -> 119
      [] c = "x" -> 120 [] c = "y" -> 121 [] c = "z" -> 122
      [] c = "{" -> 123 [] c = "}" -> 125
      [] OTHER -> 0

Min(a, b) == IF a <= b THEN a ELSE b

\* a < b for Python str
StrLess(a, b) ==
    \E n \in 1..(Min(Len(a), Len(b)) + 1) :
        /\ \A j \in 1..(n - 1) : a[j] = b[j]
        /\ IF n > Len(a) THEN n <= Len(b)
           ELSE n <= Len(b) /\ Ord(a[n]) < Ord(b[n])

\* str.endswith(suffix)
EndsWith(s, suffix) ==
    /\ Len(s) >= Len(suffix)
    /\ SubSeq(s, Len(s) - Len(suffix) + 1, Len(s)) = suffix

DotPy == <<".", "p", "y">>

SeqToSet(s) == {s[j] : j \in 1..Len(s)}

\* list(sorted(set(xs))) for a list of str
RECURSIVE SortSet(_)
SortSet(S) ==
    IF S = {} THEN <<>>
    ELSE LET m == CHOOSE x \in S : \A y \in S \ {x} : StrLess(x, y)
         IN  <<m>> \o SortSet(S \ {m})

SortedSetOf(xs) == SortSet(SeqToSet(xs))

----------------------------------------------------------------------------
(* pathlib: PurePosixPath parsing, the / operator and str().               *)

\* the components of a path string: split on "/", dropping "" and "."
RECURSIVE PathParts(_)
PathParts(s) ==
    IF s = <<>> THEN <<>>
    ELSE LET cut == IF \E j \in 1..Len(s) : s[j] = "/"
                    THEN CHOOSE j \in 1..Len(s) :
                            s[j] = "/" /\ \A h \in 1..(j - 1) : s[h] # "/"
                    ELSE Len(s) + 1
             head == SubSeq(s, 1, cut - 1)
             rest == PathParts(SubSeq(s, cut + 1, Len(s)))
         IN  IF head = <<>> \/ head = <<".">> THEN rest ELSE <<head>> \o rest

IsAbsolute(s) == s # <<>> /\ s[1] = "/"

RECURSIVE JoinParts(_)
JoinParts(parts) ==
    IF parts = <<>> THEN <<>>
    ELSE IF Len(parts) = 1 THEN parts[1]
    ELSE parts[1] \o <<"/">> \o JoinParts(Tail(parts))

\* str(PurePosixPath(s))
PathStr(s) ==
    IF IsAbsolute(s) THEN <<"/">> \o JoinParts(PathParts(s))
    ELSE IF PathParts(s) = <<>> THEN <<".">>
    ELSE JoinParts(PathParts(s))

\* PathJoin that appends b to a whatever b is
PathJoinAppending(a, b) == PathStr(a \o <<"/">> \o b)

\* str(Path(a) / b): an absolute b replaces a
PathJoin(a, b) ==
    IF IsAbsolute(b) THEN PathStr(b)
    ELSE PathStr(a \o <<"/">> \o b)

----------------------------------------------------------------------------
(* YAML values as yaml.safe_load returns them.                             *)

Null == [t |-> "null"]
Str(s) == [t |-> "str", s |-> s]
List(xs) == [t |-> "list", v |-> xs]
Dict(items) == [t |-> "dict", items |-> items]
Item(k, v) == [k |-> k, v |-> v]

IsDict(x) == x.t = "dict"
IsList(x) == x.t = "list"
IsStr(x) == x.t = "str"
IsNull(x) == x.t = "null"

\* bool(x)
Truthy(x) ==
    CASE x.t = "null" -> FALSE
      [] x.t = "str" -> x.s # <<>>
      [] x.t = "list" -> x.v # <<>>
      [] x.t = "dict" -> x.items # <<>>
      [] OTHER -> TRUE

Keys(d) == {d.items[j].k : j \in 1..Len(d.items)}

\* k in d, for a dict d
Has(d, k) == k \in Keys(d)

\* d[k], for a dict d that has k
Get(d, k) == d.items[CHOOSE j \in 1..Len(d.items) : d.items[j].k = k].v

\* d[k] = v: a new key goes last, a known key keeps its place
DictSet(d, k, v) ==
    IF Has(d, k)
    THEN Dict([j \in 1..Len(d.items) |->
                 IF d.items[j].k = k THEN Item(k, v) ELSE d.items[j]])
    ELSE Dict(Append(d.items, Item(k, v)))

\* d.update(e)
RECURSIVE UpdateItems(_, _)
UpdateItems(d, items) ==
    IF items = <<>> THEN d
    ELSE UpdateItems(DictSet(d, Head(items).k, Head(items).v), Tail(items))

\* Update that keeps the value of a key d already has
UpdateKeepingOld(d, e) ==
    UpdateItems(d, SelectSeq(e.items, LAMBDA it : ~Has(d, it.k)))

Update(d, e) == UpdateItems(d, e.items)

\* needle in haystack, for two str
Contains(haystack, needle) ==
    \E j \in 0..(Len(haystack) - Len(needle)) :
        Len(haystack) >= Len(needle)
        /\ SubSeq(haystack, j + 1, j + Len(needle)) = needle

ArgsWord == <<"a", "r", "g", "s">>

----------------------------------------------------------------------------
(* Module constants of nanobot_template_util.py.                           *)

PROJECT_ROOT == <<"/", "w">>
AGENTS_DIR == PathJoin(PROJECT_ROOT, <<"a", "g", "e", "n", "t", "s">>)
YamlFileName == <<"n", "a", "n", "o", "b", "o", "t", ".", "y", "a", "m", "l">>
\* OUTPUT_YAML put where the main agent's manifest is
OutputYamlOfApp == PathJoin(PathJoin(AGENTS_DIR, <<"a", "p", "p">>), YamlFileName)
OUTPUT_YAML == PathJoin(PROJECT_ROOT, YamlFileName)
MAIN_AGENT_NAME == <<"a", "p", "p">>
MAIN_AGENT_YAML == PathJoin(PathJoin(AGENTS_DIR, MAIN_AGENT_NAME), YamlFileName)

\* the entries of the agents directory: "app" and the subordinate agents
SubNames == <<<<"b">>, <<"c">>, <<"d">>, <<"e">>>>
AgentNames == {MAIN_AGENT_NAME} \cup {SubNames[j] : j \in 1..NumSub}

\* agent_dir / "nanobot.yaml", for each entry agent_dir of AGENTS_DIR
AgentYamlPaths ==
    [n \in AgentNames |-> PathJoin(PathJoin(AGENTS_DIR, n), YamlFileName)]
AgentYamlPath(name) == AgentYamlPaths[name]

\* AGENTS_DIR / agent_name
AgentDirs == [n \in AgentNames |-> PathJoin(AGENTS_DIR, n)]

----------------------------------------------------------------------------
(* adjust_mcp_paths.                                                       *)

\* AdjustArg with the agent's name left out of the path
AdjustArgNoAgent(agent_name, arg) ==
    IF EndsWith(arg.s, DotPy) THEN Str(PathJoin(AGENTS_DIR, arg.s)) ELSE arg

\* one turn of the loop over server["args"]
AdjustArg(agent_name, arg) ==
    IF EndsWith(arg.s, DotPy)
    THEN Str(PathJoin(AgentDirs[agent_name], arg.s))
    ELSE arg

\* "args" in server, for a server that is not falsy
HasArgs(server) ==
    CASE IsDict(server) -> Has(server, "args")
      [] IsStr(server) -> Contains(server.s, ArgsWord)
      [] IsList(server) -> \E j \in 1..Len(server.v) : server.v[j] = Str(ArgsWord)
      [] OTHER -> FALSE

\* the loop body raises: server["args"] on a str or a list, a loop over an
\* args that is no list, or .endswith on an arg that is no str
AdjustServerRaises(server) ==
    /\ Truthy(server)
    /\ HasArgs(server)
    /\ \/ ~IsDict(server)
       \/ IsNull(Get(server, "args"))
       \/ /\ IsList(Get(server, "args"))
          /\ \E j \in 1..Len(Get(server, "args").v) : ~IsStr(Get(server, "args").v[j])

\* what the loop body leaves in server
AdjustServer(agent_name, server) ==
    IF ~Truthy(server) \/ ~HasArgs(server) THEN server
    ELSE LET args == Get(server, "args")
             seq == IF IsList(args) THEN args.v
                    ELSE IF IsStr(args) THEN [j \in 1..Len(args.s) |-> Str(<<args.s[j]>>)]
                    ELSE [j \in 1..Len(args.items) |-> Str(args.items[j].k)]
         IN  DictSet(server, "args",
                     List([j \in 1..Len(seq) |-> AdjustArg(agent_name, seq[j])]))

\* adjust_mcp_paths raises for this mcp_servers
AdjustRaises(mcp_servers) ==
    \/ ~IsDict(mcp_servers)
    \/ \E j \in 1..Len(mcp_servers.items) : AdjustServerRaises(mcp_servers.items[j].v)

\* the value adjust_mcp_paths returns (and leaves in its argument)
adjust_mcp_paths(agent_name, mcp_servers) ==
    Dict([j \in 1..Len(mcp_servers.items) |->
            Item(mcp_servers.items[j].k,
                 AdjustServer(agent_name, mcp_servers.items[j].v))])

\* ArgumentAfterAdjust of a function that builds the mapping it returns
ArgumentUntouched(agent_name, mcp_servers) == mcp_servers

\* the mapping passed to adjust_mcp_paths, once it has returned: line 29
\* stores new_args in the server record of that mapping, and line 30 returns
\* the mapping itself
ArgumentAfterAdjust(agent_name, mcp_servers) ==
    adjust_mcp_paths(agent_name, mcp_servers)

----------------------------------------------------------------------------
(* The pieces of merge_nanobot_yamls.                                      *)

\* a step's outcome: the exception type it raised ("" for none) and merged
Ok(m) == [exc |-> "", m |-> m]
Raise(type, m) == [exc |-> type, m |-> m]

\* merged as first built
EmptyMerged ==
    Dict(<<Item("publish", Dict(<<Item("tools", List(<<>>)),
                                  Item("prompts", List(<<>>)),
                                  Item("resources", List(<<>>)),
                                  Item("resourceTemplates", List(<<>>))>>)),
           Item("agents", Dict(<<>>)),
           Item("mcpServers", Dict(<<>>))>>)

PubFields == <<"tools", "prompts", "resources", "resourceTemplates">>

\* the characters of the key names the code tests with "in"
KeyChars(k) ==
    CASE k = "tools" -> <<"t", "o", "o", "l", "s">>
      [] k = "prompts" -> <<"p", "r", "o", "m", "p", "t", "s">>
      [] k = "resources" -> <<"r", "e", "s", "o", "u", "r", "c", "e", "s">>
      [] k = "resourceTemplates" ->
            <<"r", "e", "s", "o", "u", "r", "c", "e", "T", "e", "m", "p", "l", "a", "t", "e", "s">>
      [] k = "entrypoint" -> <<"e", "n", "t", "r", "y", "p", "o", "i", "n", "t">>
      [] OTHER -> <<>>

\* merged["publish"][f]
Pub(m, f) == Get(Get(m, "publish"), f)

\* merged["publish"][f] = v
SetPub(m, f, v) == DictSet(m, "publish", DictSet(Get(m, "publish"), f, v))

\* the elements list.extend(x) appends: a list's elements, a str's
\* characters, a dict's keys (None raises TypeError)
Elements(x) ==
    CASE IsList(x) -> x.v
      [] IsStr(x) -> [j \in 1..Len(x.s) |-> Str(<<x.s[j]>>)]
      [] IsDict(x) -> [j \in 1..Len(x.items) |-> Str(x.items[j].k)]
      [] OTHER -> <<>>

\* merged["publish"][f].extend(x)
ExtendPub(m, f, x) == SetPub(m, f, List(Pub(m, f).v \o Elements(x)))

\* the four "if f in p: merged[publish][f].extend(p[f])" of a dict p
RECURSIVE ExtendFields(_, _, _)
ExtendFields(m, p, fields) ==
    IF fields = <<>> THEN m
    ELSE ExtendFields(IF Has(p, Head(fields))
                      THEN ExtendPub(m, Head(fields), Get(p, Head(fields)))
                      ELSE m,
                      p, Tail(fields))

ExtendFieldsRaises(p) ==
    \E j \in 1..Len(PubFields) : Has(p, PubFields[j]) /\ IsNull(Get(p, PubFields[j]))

\* key in x, for x a dict, a list or a str (None raises TypeError)
In(x, key) ==
    CASE IsDict(x) -> Has(x, key)
      [] IsList(x) -> \E j \in 1..Len(x.v) : x.v[j] = Str(KeyChars(key))
      [] IsStr(x) -> Contains(x.s, KeyChars(key))
      [] OTHER -> FALSE

\* lines 38-58: the fold of the main agent's manifest
RootFold(main_yaml, m0) ==
    IF ~IsDict(main_yaml)
    THEN IF IsNull(main_yaml) THEN Raise("TypeError", m0) ELSE Ok(m0)
    ELSE
    LET pubv == Get(main_yaml, "publish")
        m1 == IF ~Has(main_yaml, "publish") THEN Ok(m0)
              ELSE IF IsDict(pubv)
                   THEN IF ExtendFieldsRaises(pubv) THEN Raise("TypeError", m0)
                        ELSE Ok(ExtendFields(m0, pubv, PubFields))
              ELSE IF IsList(pubv) THEN Ok(ExtendPub(m0, "tools", pubv))
              ELSE Ok(m0)
        agv == Get(main_yaml, "agents")
        m2 == IF m1.exc # "" \/ ~Has(main_yaml, "agents") THEN m1
              ELSE IF IsDict(agv) THEN Ok(DictSet(m1.m, "agents", Update(Get(m1.m, "agents"), agv)))
              ELSE IF IsList(agv) THEN Raise("KeyError", m1.m)
              ELSE m1
        mcv == Get(main_yaml, "mcpServers")
        m3 == IF m2.exc # "" \/ ~Has(main_yaml, "mcpServers") THEN m2
              ELSE IF IsDict(mcv)
                   THEN Ok(DictSet(m2.m, "mcpServers", Update(Get(m2.m, "mcpServers"), mcv)))
              ELSE IF IsList(mcv) THEN Raise("KeyError", m2.m)
              ELSE m2
    IN  m3

\* MergeServers that leaves a name the aggregate already has as it is
RECURSIVE MergeServersKeepingFirst(_, _)
MergeServersKeepingFirst(servers, items) ==
    IF items = <<>> THEN servers
    ELSE MergeServersKeepingFirst(
            IF ~IsNull(Head(items).v) /\ IsDict(Head(items).v)
               /\ ~Has(servers, Head(items).k)
            THEN DictSet(servers, Head(items).k, Head(items).v)
            ELSE servers,
            Tail(items))

\* lines 79-81: keep the adjusted entries that are dicts
RECURSIVE MergeServers(_, _)
MergeServers(servers, items) ==
    IF items = <<>> THEN servers
    ELSE MergeServers(IF ~IsNull(Head(items).v) /\ IsDict(Head(items).v)
                      THEN DictSet(servers, Head(items).k, Head(items).v)
                      ELSE servers,
                      Tail(items))

\* dict.update(a) raises unless a is a dict or an empty iterable
UpdateRaises(a) == ~IsDict(a) /\ (IsNull(a) \/ Truthy(a))

\* lines 66-81: the fold of one agent directory's manifest
AgentFold(agent_name, agent_yaml, m0) ==
    IF ~IsDict(agent_yaml)
    THEN IF IsNull(agent_yaml) THEN Raise("TypeError", m0) ELSE Ok(m0)
    ELSE
    LET pubv == Get(agent_yaml, "publish")
        m1 == IF ~Has(agent_yaml, "publish") THEN Ok(m0)
              ELSE IF IsNull(pubv) THEN Raise("TypeError", m0)
              ELSE IF IsDict(pubv)
                   THEN IF ExtendFieldsRaises(pubv) THEN Raise("TypeError", m0)
                        ELSE Ok(ExtendFields(m0, pubv, PubFields))
              ELSE IF \E j \in 1..Len(PubFields) : In(pubv, PubFields[j])
                   THEN Raise("TypeError", m0)
              ELSE Ok(m0)
        agv == Get(agent_yaml, "agents")
        m2 == IF m1.exc # "" \/ ~Has(agent_yaml, "agents") THEN m1
              ELSE IF UpdateRaises(agv) THEN Raise("TypeError", m1.m)
              ELSE IF IsDict(agv)
                   THEN Ok(DictSet(m1.m, "agents", Update(Get(m1.m, "agents"), agv)))
              ELSE m1
        mcv == Get(agent_yaml, "mcpServers")
        m3 == IF m2.exc # "" \/ ~Has(agent_yaml, "mcpServers") THEN m2
              ELSE IF ~IsDict(mcv) THEN Raise("AttributeError", m2.m)
              ELSE IF AdjustRaises(mcv) THEN Raise("TypeError", m2.m)
              ELSE Ok(DictSet(m2.m, "mcpServers",
                              MergeServers(Get(m2.m, "mcpServers"),
                                           adjust_mcp_paths(agent_name, mcv).items)))
    IN  m3

----------------------------------------------------------------------------
(* Lines 82-99: deduplication of the publish lists.                        *)

Unhashable(x) == IsDict(x) \/ IsList(x)

\* sorted(set(xs)) raises: an unhashable element, or str compared with None
SortedRaises(xs) ==
    \/ \E j \in 1..Len(xs) : Unhashable(xs[j])
    \/ /\ Cardinality(SeqToSet(xs)) > 1
       /\ \E j \in 1..Len(xs) : ~IsStr(xs[j])

\* the elements of xs in the order of sorted, each as often as xs has it
RECURSIVE Expand(_, _)
Expand(sorted, xs) ==
    IF sorted = <<>> THEN <<>>
    ELSE SelectSeq(xs, LAMBDA x : x.s = Head(sorted)) \o Expand(Tail(sorted), xs)

\* SortedList without set(): list(sorted(xs)), which keeps what is repeated
SortedListOfAll(xs) ==
    IF \A j \in 1..Len(xs) : IsStr(xs[j])
    THEN List(Expand(SortedSetOf([j \in 1..Len(xs) |-> xs[j].s]), xs))
    ELSE List(<<xs[1]>>)

\* list(sorted(set(xs)))
SortedList(xs) ==
    IF \A j \in 1..Len(xs) : IsStr(xs[j])
    THEN LET sorted == SortedSetOf([j \in 1..Len(xs) |-> xs[j].s])
         IN  List([j \in 1..Len(sorted) |-> Str(sorted[j])])
    ELSE List(<<xs[1]>>)

\* TemplateStr with the braces of the f-string lost
TemplateStrNoBraces(key, value) ==
    IF IsNull(value) THEN key ELSE value.s

\* f"{{{key}}}" if value is None else str(value)
TemplateStr(key, value) ==
    IF IsNull(value) THEN <<"{">> \o key \o <<"}">> ELSE value.s

\* the loop of lines 85-96 from position j on, with unique_prompts as built
RECURSIVE UniquePrompts(_, _, _)
UniquePrompts(prompts, j, unique) ==
    IF j > Len(prompts) THEN unique
    ELSE LET prompt == prompts[j]
             seen == SeqToSet(unique)
             text == IF IsStr(prompt) THEN prompt.s
                     ELSE TemplateStr(prompt.items[1].k, prompt.items[1].v)
         IN  IF IsStr(prompt) \/ (IsDict(prompt) /\ Len(prompt.items) = 1)
             THEN UniquePrompts(prompts, j + 1,
                                IF Str(text) \in seen THEN unique
                                ELSE Append(unique, Str(text)))
             ELSE UniquePrompts(prompts, j + 1, unique)

DedupRaises(m) ==
    \/ SortedRaises(Pub(m, "tools").v)
    \/ SortedRaises(Pub(m, "resources").v)
    \/ SortedRaises(Pub(m, "resourceTemplates").v)

\* Dedup with the prompts sorted like the other lists
DedupSortingPrompts(m) ==
    LET m1 == SetPub(m, "tools", SortedList(Pub(m, "tools").v))
        m2 == SetPub(m1, "prompts",
                     SortedList(UniquePrompts(Pub(m1, "prompts").v, 1, <<>>)))
        m3 == SetPub(m2, "resources", SortedList(Pub(m2, "resources").v))
    IN  SetPub(m3, "resourceTemplates", SortedList(Pub(m3, "resourceTemplates").v))

Dedup(m) ==
    LET m1 == SetPub(m, "tools", SortedList(Pub(m, "tools").v))
        m2 == SetPub(m1, "prompts", List(UniquePrompts(Pub(m1, "prompts").v, 1, <<>>)))
        m3 == SetPub(m2, "resources", SortedList(Pub(m2, "resources").v))
    IN  SetPub(m3, "resourceTemplates", SortedList(Pub(m3, "resourceTemplates").v))

----------------------------------------------------------------------------
(* Lines 100-115: the entrypoint.                                          *)

\* "publish" in y and "entrypoint" in y["publish"] raises
DeclaresRaises(y) ==
    \/ IsNull(y)
    \/ IsDict(y) /\ Has(y, "publish") /\ IsNull(Get(y, "publish"))

\* "publish" in y and "entrypoint" in y["publish"]
DeclaresEntrypoint(y) ==
    IsDict(y) /\ Has(y, "publish") /\ In(Get(y, "publish"), "entrypoint")

\* y["publish"]["entrypoint"] raises (a list or str cannot be subscripted so)
EntrypointRaises(y) == ~IsDict(Get(y, "publish"))

EntrypointOf(y) == Get(Get(y, "publish"), "entrypoint")

\* lines 114-115
SetEntrypoint(m, e) == IF Truthy(e) THEN SetPub(m, "entrypoint", e) ELSE m

----------------------------------------------------------------------------
(* Lines 116-120: the output file, as the events yaml.dump emits.          *)

Banner ==
    [ev |-> "comment",
     text |-> "# DO NOT EDIT: This file is autogenerated by nanobot_template_util.py."]

\* yaml.dump(v, sort_keys=False): mappings and sequences in their own order
RECURSIVE Dump(_)
RECURSIVE DumpItems(_)
RECURSIVE DumpSeq(_)

\* Dump that emits the keys of a mapping last to first
DumpKeysReversed(v) ==
    CASE IsDict(v) ->
            <<[ev |-> "mapping-start"]>>
            \o DumpItems([j \in 1..Len(v.items) |-> v.items[Len(v.items) + 1 - j]])
            \o <<[ev |-> "mapping-end"]>>
      [] IsList(v) -> <<[ev |-> "sequence-start"]>> \o DumpSeq(v.v)
                        \o <<[ev |-> "sequence-end"]>>
      [] IsStr(v) -> <<[ev |-> "scalar", s |-> v.s]>>
      [] OTHER -> <<[ev |-> "null"]>>

Dump(v) ==
    CASE IsDict(v) -> <<[ev |-> "mapping-start"]>> \o DumpItems(v.items)
                        \o <<[ev |-> "mapping-end"]>>
      [] IsList(v) -> <<[ev |-> "sequence-start"]>> \o DumpSeq(v.v)
                        \o <<[ev |-> "sequence-end"]>>
      [] IsStr(v) -> <<[ev |-> "scalar", s |-> v.s]>>
      [] OTHER -> <<[ev |-> "null"]>>
DumpItems(items) ==
    IF items = <<>> THEN <<>>
    ELSE <<[ev |-> "key", k |-> Head(items).k]>> \o Dump(Head(items).v)
            \o DumpItems(Tail(items))
DumpSeq(xs) ==
    IF xs = <<>> THEN <<>> ELSE Dump(Head(xs)) \o DumpSeq(Tail(xs))

NoFile == [exists |-> FALSE, content |-> <<>>]
File(content) == [exists |-> TRUE, content |-> content]

----------------------------------------------------------------------------
(* The agents directory and the manifests the model reads.                 *)

\* what a directory entry is: a plain file, a directory without nanobot.yaml,
\* a directory whose nanobot.yaml does not parse, or one whose nanobot.yaml
\* parses to doc
NotDir == [kind |-> "notdir", doc |-> Null]
NoManifest == [kind |-> "nomanifest", doc |-> Null]
Malformed == [kind |-> "malformed", doc |-> Null]
Manifest(doc) == [kind |-> "doc", doc |-> doc]

Strs(xs) == List([j \in 1..Len(xs) |-> Str(xs[j])])

sa == <<"a">>
sab == <<"a", "b">>
ss == <<"s">>
sx == <<"x">>
sy == <<"y">>
sz == <<"z">>
sk == <<"k">>
sBraceK == <<"{", "k", "}">>
tRun == <<"r", "u", "n">>
tFlag == <<"-", "-", "v">>
tRel == <<"t", ".", "p", "y">>
tSub == <<"d", "/", "t", ".", "p", "y">>
tAbs == <<"/", "o", "/", "t", ".", "p", "y">>
sUv == <<"u", "v">>

PublishOnly(items) == Manifest(Dict(<<Item("publish", Dict(items))>>))

\* manifests that differ in their tools, resources and resourceTemplates
ListManifests ==
    { NoManifest,
      PublishOnly(<<Item("tools", Strs(<<sab, sa, ss, sa>>)),
                    Item("resources", Strs(<<ss>>))>>),
      PublishOnly(<<Item("resources", Strs(<<ss, sa>>)),
                    Item("resourceTemplates", Strs(<<sab, sa, sab>>))>>) }

\* manifests that differ in their prompts, all of them strings
PromptManifests ==
    { Manifest(Dict(<<>>)),
      PublishOnly(<<Item("prompts", Strs(<<sx, sy>>))>>),
      PublishOnly(<<Item("prompts", Strs(<<sy, sz>>))>>) }

\* manifests with prompts that are strings and mappings
PromptMapManifests ==
    { PublishOnly(<<Item("prompts", Strs(<<sx, sy>>))>>),
      PublishOnly(<<Item("prompts", Strs(<<sy, sz>>))>>),
      PublishOnly(<<Item("prompts",
          List(<<Dict(<<Item(sk, Null)>>), Str(sx), Dict(<<Item(sz, Str(sy))>>),
                 Dict(<<Item(sk, Str(sx)), Item(sz, Null)>>)>>))>>) }

Server(items) == Dict(items)

ServersOnly(items) == Manifest(Dict(<<Item("mcpServers", Dict(items))>>))

\* manifests that differ in their mcpServers
ServerManifests ==
    { ServersOnly(<<Item("s1", Server(<<Item("command", Str(sUv)),
                                        Item("args", Strs(<<tRun, tRel>>))>>))>>),
      ServersOnly(<<Item("s1", Server(<<Item("command", Str(sUv)),
                                        Item("args", Strs(<<tRun, tFlag, sa>>))>>)),
                    Item("s2", Null)>>),
      ServersOnly(<<Item("s2", Server(<<Item("command", Str(sUv)),
                                        Item("args", Strs(<<tAbs, tSub>>))>>)),
                    Item("s1", Null),
                    Item("s3", Server(<<Item("command", Str(sUv))>>))>>) }

\* manifests with servers that are neither null nor a mapping
OddServerManifests ==
    { ServersOnly(<<Item("s1", Str(sUv))>>),
      ServersOnly(<<Item("s2", Strs(<<tRun>>)),
                    Item("s1", Server(<<Item("command", Str(sUv)),
                                        Item("args", Strs(<<tRel>>))>>))>>),
      ServersOnly(<<Item("s3", Str(<<"-", "-">> \o ArgsWord))>>),
      ServersOnly(<<Item("s3", Strs(<<sUv, ArgsWord>>))>>) }

\* manifests of directory name that differ in publish.entrypoint; a declared
\* non-empty entrypoint is the directory's own name
EntryManifests(name) ==
    { PublishOnly(<<Item("entrypoint", Str(name))>>),
      PublishOnly(<<Item("entrypoint", Str(<<>>))>>),
      PublishOnly(<<Item("entrypoint", Null)>>) }

\* an agent definition, which the pass does not look into
AgentDef(name) == Dict(<<Item("name", Str(name))>>)

AgentsOnly(items) == Manifest(Dict(<<Item("agents", Dict(items))>>))

\* manifests of directory name that differ in their agents map; a definition
\* carries the name of the directory that declares it
AgentsManifests(name) ==
    { AgentsOnly(<<Item("a1", AgentDef(name))>>),
      AgentsOnly(<<Item("a2", AgentDef(name)), Item("a1", AgentDef(name))>>),
      AgentsOnly(<<Item("a2", Null), Item("a3", AgentDef(name))>>) }

\* entries the loops pass over, beside a manifest they fold
SkippedEntries ==
    { NotDir,
      NoManifest,
      PublishOnly(<<Item("tools", Strs(<<sa>>)), Item("entrypoint", Str(sa))>>) }

\* manifests that do not parse or are empty, beside one that is neither
OddManifests ==
    { Malformed,
      Manifest(Null),
      PublishOnly(<<Item("tools", Strs(<<sa>>)), Item("entrypoint", Str(sa))>>) }

\* manifests whose publish section is not a mapping
ShapeManifests ==
    { Manifest(Dict(<<Item("publish", Null)>>)),
      Manifest(Dict(<<Item("publish", Strs(<<sx>>))>>)),
      Manifest(Dict(<<Item("publish", Strs(<<KeyChars("entrypoint")>>))>>)),
      PublishOnly(<<Item("tools", Strs(<<sa>>))>>) }

Families ==
    {"lists", "prompts", "promptmaps", "servers", "oddservers", "agents", "entry",
     "skipped", "odd", "shape"}

Entries(family, name) ==
    CASE family = "lists" -> ListManifests
      [] family = "prompts" -> PromptManifests
      [] family = "promptmaps" -> PromptMapManifests
      [] family = "servers" -> ServerManifests
      [] family = "oddservers" -> OddServerManifests
      [] family = "agents" -> AgentsManifests(name)
      [] family = "entry" -> EntryManifests(name)
      [] family = "skipped" -> SkippedEntries
      [] family = "odd" -> OddManifests
      [] OTHER -> ShapeManifests

\* the orders in which iterdir() may yield the entries
Orders ==
    {p \in [1..Cardinality(AgentNames) -> AgentNames] :
        \A j, h \in 1..Cardinality(AgentNames) : j # h => p[j] # p[h]}

Reverse(p) == [j \in 1..Len(p) |-> p[Len(p) + 1 - j]]

\* what OUTPUT_YAML may hold before the pass
HandWritten ==
    File(<<[ev |-> "comment", text |-> "# written by hand"]>>
         \o Dump(Dict(<<Item("agents", Dict(<<>>))>>)))
OldOutputs == {NoFile, HandWritten}

----------------------------------------------------------------------------
(* The file system as the pass sees it.                                    *)

NoError == [type |-> "", name |-> <<>>]
Error(type) == [type |-> type, name |-> <<>>]

\* the directory entry a manifest path lies in
DirOf(path) == CHOOSE n \in AgentNames : AgentYamlPath(n) = path

\* Exists that finds a nanobot.yaml in every entry of the agents directory
ExistsAnywhere(path) == TRUE

\* Path.exists() of a manifest path
Exists(path) ==
    \E n \in AgentNames : AgentYamlPath(n) = path /\ fs[n].kind \in {"malformed", "doc"}

\* agent_dir.is_dir()
IsDir(name) == fs[name].kind # "notdir"

\* StreamName when the text of the file is handed to yaml, not the file
StreamNameOfText(path) == <<"<", "s", "t", "r", "i", "n", "g", ">">>

\* the name yaml gives the stream it reads: the name of the open file
StreamName(path) == path

\* load_yaml that takes a file that does not parse for an empty manifest
load_yaml_lenient(path) ==
    IF fs[DirOf(path)].kind = "malformed"
    THEN [exc |-> NoError, value |-> Dict(<<>>)]
    ELSE [exc |-> NoError, value |-> fs[DirOf(path)].doc]

\* load_yaml(path): the document, or the YAMLError of a file that does not
\* parse, which carries the name of the stream in its marks
load_yaml(path) ==
    IF fs[DirOf(path)].kind = "malformed"
    THEN [exc |-> [type |-> "YAMLError", name |-> StreamName(path)], value |-> Null]
    ELSE [exc |-> NoError, value |-> fs[DirOf(path)].doc]

----------------------------------------------------------------------------
(* The pass, merge_nanobot_yamls, step by step.                            *)

\* the agents directory, the traversal orders and the output file a pass finds
Inputs ==
    /\ \E family \in Families :
          /\ fs \in [AgentNames -> UNION {Entries(family, n) : n \in AgentNames}]
          /\ \A n \in AgentNames : fs[n] \in Entries(family, n)
          /\ order \in Orders
          /\ scanOrder \in IF family = "entry" THEN {order, Reverse(order)} ELSE {order}
          /\ out0 \in IF family = "odd" THEN OldOutputs ELSE {HandWritten}
    /\ out = out0

\* what is not bound before the pass has reached its loops
Locals ==
    /\ agentYaml = Null
    /\ adjustCalls = <<>>

\* no other pass writes OUTPUT_YAML, and api/lifespan.py is not in use
Elsewhere ==
    /\ writers = <<>>
    /\ agents = <<>>
    /\ nanobot_processes = <<>>
    /\ procs = <<>>

\* lines 126-127: the module run as a script calls merge_nanobot_yamls
Init ==
    /\ Inputs
    /\ pc = "root"
    /\ idx = 1
    /\ merged = EmptyMerged
    /\ entrypoint = Null
    /\ err = NoError
    /\ hook = "script"
    /\ calls = 1
    /\ nanobot_process = "None"
    /\ Locals
    /\ Elsewhere

\* an exception leaves the function: nothing after the raise runs
Fail(e) ==
    /\ pc' = "failed"
    /\ err' = e
    /\ UNCHANGED <<appVars, apiVars, writers, agentYaml, adjustCalls, fs, order, scanOrder, idx, merged, entrypoint, out, out0>>

\* lines 33-58
RootStep ==
    /\ pc = "root"
    /\ IF ~Exists(MAIN_AGENT_YAML)
       THEN /\ pc' = "merge"
            /\ UNCHANGED <<appVars, apiVars, writers, agentYaml, adjustCalls, fs, order, scanOrder, idx, merged, entrypoint, out, out0, err>>
       ELSE LET y == load_yaml(MAIN_AGENT_YAML)
                r == RootFold(y.value, merged)
            IN  IF y.exc.type # "" THEN Fail(y.exc)
                ELSE IF r.exc # "" THEN Fail(Error(r.exc))
                ELSE /\ pc' = "merge"
                     /\ merged' = r.m
                     /\ UNCHANGED <<appVars, apiVars, writers, agentYaml, adjustCalls, fs, order, scanOrder, idx, entrypoint, out, out0, err>>

\* line 77: the turn of the loop calls adjust_mcp_paths
Adjusts(doc) == IsDict(doc) /\ Has(doc, "mcpServers")

\* lines 65-81: the local agent_yaml at the end of a turn of the loop that
\* raised nothing: the document loaded, with what adjust_mcp_paths has left
\* in the mapping it was passed
LocalAfterFold(agent_name, doc) ==
    IF Adjusts(doc)
    THEN DictSet(doc, "mcpServers",
                 ArgumentAfterAdjust(agent_name, Get(doc, "mcpServers")))
    ELSE doc

\* line 78: the calls of adjust_mcp_paths a turn of the loop makes, each
\* with the name passed and the directory whose mcpServers are passed
CallsOfFold(agent_dir, doc) ==
    IF Adjusts(doc) THEN <<[agent_name |-> agent_dir, dir |-> agent_dir]>> ELSE <<>>

\* lines 59-81: one turn of the first loop over AGENTS_DIR.iterdir()
MergeAgent ==
    /\ pc = "merge"
    /\ idx <= Len(order)
    /\ LET agent_dir == order[idx]
           agent_yaml_path == AgentYamlPath(agent_dir)
           y == load_yaml(agent_yaml_path)
           r == AgentFold(agent_dir, y.value, merged)
       IN  IF ~IsDir(agent_dir) \/ ~Exists(agent_yaml_path)
           THEN /\ idx' = idx + 1
                /\ UNCHANGED <<appVars, apiVars, writers, agentYaml, adjustCalls, fs, order, scanOrder, pc, merged, entrypoint, out, out0, err>>
           ELSE IF y.exc.type # "" THEN Fail(y.exc)
           ELSE IF r.exc # "" THEN Fail(Error(r.exc))
           ELSE /\ idx' = idx + 1
                /\ merged' = r.m
                /\ agentYaml' = LocalAfterFold(agent_dir, y.value)
                /\ adjustCalls' = adjustCalls \o CallsOfFold(agent_dir, y.value)
                /\ UNCHANGED <<appVars, apiVars, writers, fs, order, scanOrder, pc,
                               entrypoint, out, out0, err>>

\* lines 82-100: after the first loop
DedupStep ==
    /\ pc = "merge"
    /\ idx > Len(order)
    /\ IF DedupRaises(merged) THEN Fail(Error("TypeError"))
       ELSE /\ merged' = Dedup(merged)
            /\ entrypoint' = Null
            /\ pc' = "scan"
            /\ idx' = 1
            /\ UNCHANGED <<appVars, apiVars, writers, agentYaml, adjustCalls, fs, order, scanOrder, out, out0, err>>

\* ScanAssign where the first declared entrypoint is kept
ScanAssignFirstWins(e, agent_yaml) ==
    IF Truthy(e) THEN e ELSE EntrypointOf(agent_yaml)

\* line 109: the entrypoint after a manifest that declares one
ScanAssign(e, agent_yaml) == EntrypointOf(agent_yaml)

\* lines 101-109: one turn of the second loop over AGENTS_DIR.iterdir()
ScanAgent ==
    /\ pc = "scan"
    /\ idx <= Len(scanOrder)
    /\ LET agent_dir == scanOrder[idx]
           agent_yaml_path == AgentYamlPath(agent_dir)
           y == load_yaml(agent_yaml_path)
       IN  IF ~IsDir(agent_dir) \/ ~Exists(agent_yaml_path)
           THEN /\ idx' = idx + 1
                /\ UNCHANGED <<appVars, apiVars, writers, agentYaml, adjustCalls, fs, order, scanOrder, pc, merged, entrypoint, out, out0, err>>
           ELSE IF y.exc.type # "" THEN Fail(y.exc)
           ELSE IF DeclaresRaises(y.value) THEN Fail(Error("TypeError"))
           ELSE IF ~DeclaresEntrypoint(y.value)
           THEN /\ idx' = idx + 1
                /\ agentYaml' = y.value
                /\ UNCHANGED <<appVars, apiVars, writers, adjustCalls, fs, order, scanOrder, pc, merged, entrypoint, out, out0, err>>
           ELSE IF EntrypointRaises(y.value) THEN Fail(Error("TypeError"))
           ELSE /\ idx' = idx + 1
                /\ agentYaml' = y.value
                /\ entrypoint' = ScanAssign(entrypoint, y.value)
                /\ UNCHANGED <<appVars, apiVars, writers, adjustCalls, fs, order, scanOrder, pc, merged, out, out0, err>>

\* Fallback that never looks at the main agent's manifest
FallbackNever(e, main_yaml) == e

\* the entrypoint after lines 110-113, given the main agent's document
Fallback(e, main_yaml) ==
    IF DeclaresEntrypoint(main_yaml) THEN EntrypointOf(main_yaml) ELSE e

\* lines 110-115: after the second loop
ResolveEntrypoint ==
    /\ pc = "scan"
    /\ idx > Len(scanOrder)
    /\ IF Truthy(entrypoint) \/ ~Exists(MAIN_AGENT_YAML)
       THEN /\ merged' = SetEntrypoint(merged, entrypoint)
            /\ pc' = "open"
            /\ UNCHANGED <<appVars, apiVars, writers, agentYaml, adjustCalls, fs, order, scanOrder, idx, entrypoint, out, out0, err>>
       ELSE LET y == load_yaml(MAIN_AGENT_YAML)
            IN  IF y.exc.type # "" THEN Fail(y.exc)
                ELSE IF DeclaresRaises(y.value) THEN Fail(Error("TypeError"))
                ELSE IF DeclaresEntrypoint(y.value) /\ EntrypointRaises(y.value)
                THEN Fail(Error("TypeError"))
                ELSE /\ entrypoint' = Fallback(entrypoint, y.value)
                     /\ merged' = SetEntrypoint(merged, Fallback(entrypoint, y.value))
                     /\ pc' = "open"
                     /\ UNCHANGED <<appVars, apiVars, writers, agentYaml, adjustCalls, fs, order, scanOrder, idx, out, out0, err>>

\* OpenOutput with the file opened for appending
OpenOutputAppending ==
    /\ pc = "open"
    /\ out' = File(out.content)
    /\ pc' = "banner"
    /\ UNCHANGED <<appVars, apiVars, writers, agentYaml, adjustCalls, fs, order, scanOrder, idx, merged, entrypoint, out0, err>>

\* line 116: open(OUTPUT_YAML, "w") creates or truncates the file
OpenOutput ==
    /\ pc = "open"
    /\ out' = File(<<>>)
    /\ pc' = "banner"
    /\ UNCHANGED <<appVars, apiVars, writers, agentYaml, adjustCalls, fs, order, scanOrder, idx, merged, entrypoint, out0, err>>

\* lines 117-119
WriteBanner ==
    /\ pc = "banner"
    /\ out' = File(Append(out.content, Banner))
    /\ pc' = "dump"
    /\ UNCHANGED <<appVars, apiVars, writers, agentYaml, adjustCalls, fs, order, scanOrder, idx, merged, entrypoint, out0, err>>

\* lines 120-121
WriteDump ==
    /\ pc = "dump"
    /\ out' = File(out.content \o Dump(merged))
    /\ pc' = "done"
    /\ UNCHANGED <<appVars, apiVars, writers, agentYaml, adjustCalls, fs, order, scanOrder, idx, merged, entrypoint, out0, err>>

\* lines 123-127: merge_nanobot_yamls is called again, on the same manifests
\* and with the file the pass before left; its locals are new
Rerun ==
    /\ pc = "done"
    /\ pc' = "root"
    /\ idx' = 1
    /\ merged' = EmptyMerged
    /\ entrypoint' = Null
    /\ out0' = out
    /\ agentYaml' = Null
    /\ adjustCalls' = <<>>
    /\ UNCHANGED <<appVars, apiVars, writers, fs, order, scanOrder, out, err>>

Next ==
    \/ RootStep
    \/ MergeAgent
    \/ DedupStep
    \/ ScanAgent
    \/ ResolveEntrypoint
    \/ OpenOutput
    \/ WriteBanner
    \/ WriteDump
    \/ Rerun

Spec == Init /\ [][Next]_vars

----------------------------------------------------------------------------
(* The startup hook of the project application, project_template/app.py:   *)
(* lifespan calls merge_all_configs, then launches nanobot.                *)

passVars ==
    <<fs, order, scanOrder, pc, idx, merged, entrypoint, out, out0, err,
      agentYaml, adjustCalls>>

\* the application starts: lifespan has not run yet, nanobot_process is None
LifespanInit ==
    /\ Inputs
    /\ pc = "idle"
    /\ idx = 1
    /\ merged = EmptyMerged
    /\ entrypoint = Null
    /\ err = NoError
    /\ hook = "startup"
    /\ calls = 0
    /\ nanobot_process = "None"
    /\ Locals
    /\ Elsewhere

\* app.py line 41: nanobot_template_util.merge_all_configs() is called
CallMerge ==
    /\ hook = "startup"
    /\ hook' = "merging"
    /\ calls' = calls + 1
    /\ pc' = "root"
    /\ UNCHANGED <<fs, order, scanOrder, idx, merged, entrypoint, out, out0, err,
                   nanobot_process, agentYaml, adjustCalls, apiVars, writers>>

\* Launch that does not wait for merge_all_configs to return
LaunchWithoutWaiting ==
    /\ hook \in {"startup", "merging"}
    /\ nanobot_process' = "running"
    /\ hook' = "serving"
    /\ UNCHANGED <<passVars, apiVars, writers, calls>>

\* app.py lines 42-47: merge_all_configs has returned; nanobot is started
\* unless one is running, and the application serves
Launch ==
    /\ hook = "merging"
    /\ pc = "done"
    /\ nanobot_process' = IF nanobot_process = "None" THEN "running" ELSE nanobot_process
    /\ hook' = "serving"
    /\ UNCHANGED <<passVars, apiVars, writers, calls>>

\* app.py lines 43-45: subprocess.Popen raises (no nanobot to run)
LaunchFails ==
    /\ hook = "merging"
    /\ pc = "done"
    /\ nanobot_process = "None"
    /\ hook' = "raised"
    /\ UNCHANGED <<passVars, apiVars, writers, calls, nanobot_process>>

\* lines 116-120 of the pass: open() or a write raises OSError (no right to
\* write, no room left); the file keeps what has reached it
OutputFails ==
    /\ pc \in {"open", "banner", "dump"}
    /\ Fail(Error("OSError"))

\* StartupFails of a hook that catches the exception and goes on to launch
StartupSwallows ==
    /\ hook = "merging"
    /\ pc = "failed"
    /\ hook' = "serving"
    /\ nanobot_process' = "running"
    /\ UNCHANGED <<passVars, apiVars, writers, calls>>

\* app.py line 41: the exception of the pass leaves lifespan, before the try
StartupFails ==
    /\ hook = "merging"
    /\ pc = "failed"
    /\ hook' = "raised"
    /\ UNCHANGED <<passVars, apiVars, writers, calls, nanobot_process>>

\* app.py lines 48-53: SIGINT to nanobot, wait, and the global is reset
Shutdown ==
    /\ hook = "serving"
    /\ nanobot_process' = "None"
    /\ hook' = "stopped"
    /\ UNCHANGED <<passVars, apiVars, writers, calls>>

LifespanNext ==
    \/ CallMerge
    \/ RootStep
    \/ MergeAgent
    \/ DedupStep
    \/ ScanAgent
    \/ ResolveEntrypoint
    \/ OpenOutput
    \/ WriteBanner
    \/ WriteDump
    \/ OutputFails
    \/ Launch
    \/ LaunchFails
    \/ StartupFails
    \/ Shutdown

LifespanSpec == LifespanInit /\ [][LifespanNext]_vars

----------------------------------------------------------------------------
(* The pass as a function of the traversal orders: what merge_nanobot_yamls *)
(* leaves in merged, or the exception it raises, when the two loops over   *)
(* AGENTS_DIR.iterdir() yield ord and sord.                                *)

\* lines 38-58, from the empty merged
RootOutcome ==
    IF ~Exists(MAIN_AGENT_YAML) THEN Ok(EmptyMerged)
    ELSE LET y == load_yaml(MAIN_AGENT_YAML)
         IN  IF y.exc.type # "" THEN Raise(y.exc.type, EmptyMerged)
             ELSE RootFold(y.value, EmptyMerged)

\* lines 59-81: the first loop from position j on, r being the outcome so far
RECURSIVE MergeLoop(_, _, _)
MergeLoop(ord, j, r) ==
    IF r.exc # "" \/ j > Len(ord) THEN r
    ELSE LET agent_dir == ord[j]
             agent_yaml_path == AgentYamlPath(agent_dir)
             y == load_yaml(agent_yaml_path)
         IN  IF ~IsDir(agent_dir) \/ ~Exists(agent_yaml_path)
             THEN MergeLoop(ord, j + 1, r)
             ELSE IF y.exc.type # "" THEN Raise(y.exc.type, r.m)
             ELSE MergeLoop(ord, j + 1, AgentFold(agent_dir, y.value, r.m))

\* lines 82-99
DedupOutcome(r) ==
    IF r.exc # "" THEN r
    ELSE IF DedupRaises(r.m) THEN Raise("TypeError", r.m)
    ELSE Ok(Dedup(r.m))

\* lines 100-109: the second loop from position j on; r.m is the entrypoint
RECURSIVE ScanLoop(_, _, _)
ScanLoop(sord, j, r) ==
    IF r.exc # "" \/ j > Len(sord) THEN r
    ELSE LET agent_dir == sord[j]
             agent_yaml_path == AgentYamlPath(agent_dir)
             y == load_yaml(agent_yaml_path)
         IN  IF ~IsDir(agent_dir) \/ ~Exists(agent_yaml_path)
             THEN ScanLoop(sord, j + 1, r)
             ELSE IF y.exc.type # "" THEN Raise(y.exc.type, r.m)
             ELSE IF DeclaresRaises(y.value) THEN Raise("TypeError", r.m)
             ELSE IF ~DeclaresEntrypoint(y.value) THEN ScanLoop(sord, j + 1, r)
             ELSE IF EntrypointRaises(y.value) THEN Raise("TypeError", r.m)
             ELSE ScanLoop(sord, j + 1, Ok(ScanAssign(r.m, y.value)))

\* lines 110-113: the entrypoint after the fallback to the main agent
FallbackOutcome(r) ==
    IF r.exc # "" \/ Truthy(r.m) \/ ~Exists(MAIN_AGENT_YAML) THEN r
    ELSE LET y == load_yaml(MAIN_AGENT_YAML)
         IN  IF y.exc.type # "" THEN Raise(y.exc.type, r.m)
             ELSE IF DeclaresRaises(y.value) THEN Raise("TypeError", r.m)
             ELSE IF DeclaresEntrypoint(y.value) /\ EntrypointRaises(y.value)
             THEN Raise("TypeError", r.m)
             ELSE Ok(Fallback(r.m, y.value))

\* lines 33-115: merged as the pass hands it to yaml.dump, or the exception
PassOutcome(ord, sord) ==
    LET folded == DedupOutcome(MergeLoop(ord, 1, RootOutcome))
        e == FallbackOutcome(ScanLoop(sord, 1, Ok(Null)))
    IN  IF folded.exc # "" THEN folded
        ELSE IF e.exc # "" THEN Raise(e.exc, folded.m)
        ELSE Ok(SetEntrypoint(folded.m, e.m))

----------------------------------------------------------------------------
(* The pass in a process that may be stopped while it writes OUTPUT_YAML   *)
(* (a signal, a power cut).                                                *)

\* Interrupt of a pass that writes a file of its own and renames it to
\* OUTPUT_YAML when it is complete
InterruptBeforeRename ==
    /\ pc \in {"banner", "dump"}
    /\ pc' = "interrupted"
    /\ out' = out0
    /\ UNCHANGED <<appVars, apiVars, writers, agentYaml, adjustCalls, fs, order, scanOrder,
                   idx, merged, entrypoint, out0, err>>

\* lines 116-120: the process is stopped after open() and before the dump is
\* complete: of what the pass was writing, a part that is not the whole has
\* reached the file
Interrupt ==
    /\ pc \in {"banner", "dump"}
    /\ pc' = "interrupted"
    /\ \E k \in 0..Len(Dump(merged)) :
          /\ pc = "banner" => k = 0
          /\ out' = File(SubSeq(<<Banner>> \o Dump(merged), 1, k))
    /\ UNCHANGED <<appVars, apiVars, writers, agentYaml, adjustCalls, fs, order, scanOrder,
                   idx, merged, entrypoint, out0, err>>

\* the pass is called, over manifests of few kinds
InterruptInit ==
    /\ Init
    /\ \A n \in AgentNames : fs[n] \in ListManifests \cup OddManifests

InterruptNext ==
    \/ Next
    \/ Interrupt

InterruptSpec == InterruptInit /\ [][InterruptNext]_vars

\* the state of the pass except the file it writes
passVarsButOut ==
    <<fs, order, scanOrder, pc, idx, merged, entrypoint, out0, err, agentYaml, adjustCalls>>

----------------------------------------------------------------------------
(* Several passes at the same time, each in a process of its own (two      *)
(* applications starting, or the script run beside one), on the same       *)
(* manifests and the same OUTPUT_YAML.  Until it opens OUTPUT_YAML a pass  *)
(* only reads, and no pass writes what another reads, so the passes fold   *)
(* one after the other here, with the steps of the pass above; a pass that *)
(* has folded writes while the next one folds, and each of its writes is a *)
(* step of its own, at the offset of the pass's own file object.           *)

Writers == 1..NumWriters

\* what a region of a file holds that was never written: zero bytes
Hole == [ev |-> "nul"]

\* lines 117-120: f.write(data) on a file object at offset pos, the file
\* holding content
WriteAt(content, pos, data) ==
    [j \in 1..(IF Len(content) > pos + Len(data) THEN Len(content) ELSE pos + Len(data)) |->
        IF j > pos /\ j <= pos + Len(data) THEN data[j - pos]
        ELSE IF j <= Len(content) THEN content[j]
        ELSE Hole]

\* the passes are called, over manifests that declare servers; the first
\* one is at line 33
ConcurrentInit ==
    /\ Inputs
    /\ \A n \in AgentNames : fs[n] \in ServerManifests \cup OddServerManifests
    /\ pc = "root"
    /\ idx = 1
    /\ merged = EmptyMerged
    /\ entrypoint = Null
    /\ err = NoError
    /\ hook = "script"
    /\ calls = NumWriters
    /\ nanobot_process = "None"
    /\ Locals
    /\ agents = <<>>
    /\ nanobot_processes = <<>>
    /\ procs = <<>>
    /\ writers = [p \in Writers |->
                    [pc |-> "called", merged |-> EmptyMerged, pos |-> 0, turn |-> 0]]

\* the passes that have not folded yet
Called == {p \in Writers : writers[p].pc = "called"}

\* the pass that is folding
Folding == CHOOSE p \in Called : \A q \in Called : p <= q

\* the number of writes to OUTPUT_YAML so far, over all passes
Turns ==
    CHOOSE t \in {writers[p].turn : p \in Writers} :
        \A p \in Writers : writers[p].turn <= t

\* lines 33-115 of a pass have run: it has merged to write, or has raised;
\* the next pass starts, and finds the entries of the agents directory in
\* an order of its own
ConcurrentFolded ==
    /\ pc \in {"open", "failed"}
    /\ Called # {}
    /\ writers' = [writers EXCEPT ![Folding].pc = IF pc = "open" THEN "open" ELSE "failed",
                                  ![Folding].merged = merged]
    /\ IF Called = {Folding}
       THEN /\ pc' = "idle"
            /\ UNCHANGED <<order, scanOrder>>
       ELSE /\ pc' = "root"
            /\ order' \in {order, Reverse(order)}
            /\ scanOrder' = order'
    /\ idx' = 1
    /\ merged' = EmptyMerged
    /\ entrypoint' = Null
    /\ err' = NoError
    /\ agentYaml' = Null
    /\ adjustCalls' = <<>>
    /\ UNCHANGED <<appVars, apiVars, fs, out, out0>>

\* line 116 of pass p: open(OUTPUT_YAML, "w") empties the file
ConcurrentOpen(p) ==
    /\ writers[p].pc = "open"
    /\ out' = File(<<>>)
    /\ writers' = [writers EXCEPT ![p].pc = "banner", ![p].pos = 0, ![p].turn = Turns + 1]
    /\ UNCHANGED <<passVarsButOut, appVars, apiVars>>

\* lines 117-119 of pass p
ConcurrentBanner(p) ==
    /\ writers[p].pc = "banner"
    /\ out' = File(WriteAt(out.content, writers[p].pos, <<Banner>>))
    /\ writers' = [writers EXCEPT ![p].pc = "dump", ![p].pos = @ + 1,
                                  ![p].turn = Turns + 1]
    /\ UNCHANGED <<passVarsButOut, appVars, apiVars>>

\* lines 120-121 of pass p
ConcurrentDump(p) ==
    /\ writers[p].pc = "dump"
    /\ out' = File(WriteAt(out.content, writers[p].pos, Dump(writers[p].merged)))
    /\ writers' = [writers EXCEPT ![p].pc = "done",
                                  ![p].pos = @ + Len(Dump(writers[p].merged)),
                                  ![p].turn = Turns + 1]
    /\ UNCHANGED <<passVarsButOut, appVars, apiVars>>

ConcurrentNext ==
    \/ RootStep
    \/ MergeAgent
    \/ DedupStep
    \/ ScanAgent
    \/ ResolveEntrypoint
    \/ ConcurrentFolded
    \/ \E p \in Writers : ConcurrentOpen(p)
    \/ \E p \in Writers : ConcurrentBanner(p)
    \/ \E p \in Writers : ConcurrentDump(p)

ConcurrentSpec == ConcurrentInit /\ [][ConcurrentNext]_vars

----------------------------------------------------------------------------
(* The lifespan of the application built by api/fastapp.py:                *)
(* api/lifespan.py, create_lifespan(agents).  It launches one nanobot per  *)
(* agent and does not run the pass.                                        *)

AgentIds == 1..NumAgents

\* the application starts with the agents it was given, nothing launched
ApiInit ==
    /\ fs = [n \in AgentNames |-> NoManifest]
    /\ order = SortSet(AgentNames)
    /\ scanOrder = order
    /\ out0 = NoFile
    /\ out = out0
    /\ pc = "idle"
    /\ idx = 1
    /\ merged = EmptyMerged
    /\ entrypoint = Null
    /\ err = NoError
    /\ hook = "startup"
    /\ calls = 0
    /\ nanobot_process = "None"
    /\ Locals
    /\ writers = <<>>
    /\ \E n \in 0..NumAgents :
          /\ agents \in [1..n -> AgentIds]
          /\ \A j, h \in 1..n : j # h => agents[j] # agents[h]
    /\ nanobot_processes = <<>>
    /\ procs = [a \in AgentIds |-> "none"]

\* lifespan.py lines 20-25: a turn of the startup loop: Popen starts the
\* agent's nanobot, which is appended to nanobot_processes
ApiLaunch ==
    /\ hook = "startup"
    /\ Len(nanobot_processes) < Len(agents)
    /\ procs' = [procs EXCEPT ![agents[Len(nanobot_processes) + 1]] = "running"]
    /\ nanobot_processes' = Append(nanobot_processes, agents[Len(nanobot_processes) + 1])
    /\ UNCHANGED <<passVars, appVars, writers, agents>>

\* lifespan.py lines 21-24: os.path.join or Popen raises for the agent (no
\* dir, no address, no nanobot to run): the exception leaves lifespan, whose
\* try has not been entered
ApiLaunchFails ==
    /\ hook = "startup"
    /\ Len(nanobot_processes) < Len(agents)
    /\ hook' = "raised"
    /\ UNCHANGED <<passVars, calls, nanobot_process, writers, apiVars>>

\* lifespan.py lines 26-27: the loop is over, the application serves
ApiServe ==
    /\ hook = "startup"
    /\ Len(nanobot_processes) = Len(agents)
    /\ hook' = "serving"
    /\ UNCHANGED <<passVars, calls, nanobot_process, writers, apiVars>>

\* lifespan.py lines 28-29: the application shuts down, finally is entered
ApiShutdown ==
    /\ hook = "serving"
    /\ hook' = "stopping"
    /\ UNCHANGED <<passVars, calls, nanobot_process, writers, apiVars>>

\* the positions of nanobot_processes the shutdown loop has not finished
Unstopped == {j \in 1..Len(nanobot_processes) : procs[nanobot_processes[j]] # "waited"}

\* lifespan.py line 31: proc.send_signal(signal.SIGINT), for the process the
\* shutdown loop is at
ApiSigint ==
    /\ hook = "stopping"
    /\ \E j \in Unstopped :
          /\ \A h \in Unstopped : j <= h
          /\ procs[nanobot_processes[j]] = "running"
          /\ procs' = [procs EXCEPT ![nanobot_processes[j]] = "signalled"]
    /\ UNCHANGED <<passVars, appVars, writers, agents, nanobot_processes>>

\* lifespan.py line 32: proc.wait()
ApiWait ==
    /\ hook = "stopping"
    /\ \E j \in Unstopped :
          /\ \A h \in Unstopped : j <= h
          /\ procs[nanobot_processes[j]] = "signalled"
          /\ procs' = [procs EXCEPT ![nanobot_processes[j]] = "waited"]
    /\ UNCHANGED <<passVars, appVars, writers, agents, nanobot_processes>>

\* lifespan.py line 33: nanobot_processes.clear()
ApiClear ==
    /\ hook = "stopping"
    /\ Unstopped = {}
    /\ nanobot_processes' = <<>>
    /\ hook' = "stopped"
    /\ UNCHANGED <<passVars, calls, nanobot_process, writers, agents, procs>>

ApiNext ==
    \/ ApiLaunch
    \/ ApiLaunchFails
    \/ ApiServe
    \/ ApiShutdown
    \/ ApiSigint
    \/ ApiWait
    \/ ApiClear

ApiSpec == ApiInit /\ [][ApiNext]_vars

----------------------------------------------------------------------------
(* What the statements below speak of.                                     *)

Done == pc = "done"

HasManifest(n) == fs[n].kind = "doc"
Subordinates == AgentNames \ {MAIN_AGENT_NAME}

\* the manifests in the order the statements fold them: the root manifest,
\* then the subordinate agents in traversal order
FoldNames ==
    (IF HasManifest(MAIN_AGENT_NAME) THEN <<MAIN_AGENT_NAME>> ELSE <<>>)
    \o SelectSeq(order, LAMBDA n : n # MAIN_AGENT_NAME /\ HasManifest(n))

\* the publish section of a manifest, when it is a mapping
PublishOf(n) ==
    IF IsDict(fs[n].doc) /\ Has(fs[n].doc, "publish") /\ IsDict(Get(fs[n].doc, "publish"))
    THEN Get(fs[n].doc, "publish")
    ELSE Dict(<<>>)

\* the publish section of a manifest is a bare list
BareList(n) ==
    IsDict(fs[n].doc) /\ Has(fs[n].doc, "publish") /\ IsList(Get(fs[n].doc, "publish"))

\* the strings manifest n declares for field f: those under publish.f and,
\* for tools, those of a publish section written as a bare list
Declared(n, f) ==
    (IF Has(PublishOf(n), f)
     THEN {Get(PublishOf(n), f).v[j].s : j \in 1..Len(Get(PublishOf(n), f).v)}
     ELSE {})
    \cup
    (IF f = "tools" /\ BareList(n)
     THEN {Get(fs[n].doc, "publish").v[j].s : j \in 1..Len(Get(fs[n].doc, "publish").v)}
     ELSE {})

DeclaredByAny(f) == UNION {Declared(n, f) : n \in SeqToSet(FoldNames)}

\* the field f of the aggregate's publish record, as a sequence of strings
AggList(f) == [j \in 1..Len(Pub(merged, f).v) |-> Pub(merged, f).v[j].s]

StrictlyAscending(xs) == \A j \in 1..(Len(xs) - 1) : StrLess(xs[j], xs[j + 1])

SortedFields == {"tools", "resources", "resourceTemplates"}

\* C1: once the pass is done, tools, resources and resourceTemplates of the
\* aggregate each hold exactly the values some folded manifest declares for
\* the field, once each, in ascending order.
C1_SortedExactly ==
    Done => \A f \in SortedFields :
                /\ SeqToSet(AggList(f)) = DeclaredByAny(f)
                /\ StrictlyAscending(AggList(f))

\* C1, for manifests whose publish sections are mappings: the property holds.
C1_SortedExactlyOfMappings ==
    (Done /\ \A n \in AgentNames : ~BareList(n)) =>
        \A f \in SortedFields :
            /\ SeqToSet(AggList(f)) = DeclaredByAny(f)
            /\ StrictlyAscending(AggList(f))

\* the prompts a manifest declares, in declared order
PromptsOf(n) ==
    IF Has(PublishOf(n), "prompts") THEN Get(PublishOf(n), "prompts").v ELSE <<>>

IsSingleKey(p) == IsDict(p) /\ Len(p.items) = 1

\* a prompt entry has a normal form: it is a string or a single-key mapping
Normalizable(p) == IsStr(p) \/ IsSingleKey(p)

\* the normal form: the string itself; of {key: value}, the value, or the
\* key in braces when the value is null
Normal(p) ==
    IF IsStr(p) THEN p.s
    ELSE IF IsNull(p.items[1].v) THEN <<"{">> \o p.items[1].k \o <<"}">>
    ELSE p.items[1].v.s

NormalPrompts(n) ==
    LET ps == SelectSeq(PromptsOf(n), Normalizable)
    IN  [j \in 1..Len(ps) |-> Normal(ps[j])]

\* the normalized prompts of the manifests names, manifest after manifest
RECURSIVE PromptsOfAll(_)
PromptsOfAll(names) ==
    IF names = <<>> THEN <<>>
    ELSE NormalPrompts(Head(names)) \o PromptsOfAll(Tail(names))

FoldedPrompts == PromptsOfAll(FoldNames)

FirstIndex(xs, x) == CHOOSE j \in 1..Len(xs) : xs[j] = x /\ \A h \in 1..(j - 1) : xs[h] # x

NoDuplicates(xs) == \A j, h \in 1..Len(xs) : j # h => xs[j] # xs[h]

\* A then B in the fold sequence, A declaring [x, y] and B declaring [y, z]
XyThenYz ==
    \E j, h \in 1..Len(FoldNames) :
        /\ j < h
        /\ \A g \in 1..Len(FoldNames) : g \in {j, h} \/ PromptsOf(FoldNames[g]) = <<>>
        /\ PromptsOf(FoldNames[j]) = Strs(<<sx, sy>>).v
        /\ PromptsOf(FoldNames[h]) = Strs(<<sy, sz>>).v

\* C2: once the pass is done, the aggregate's prompts are the distinct
\* normalized prompts of the folded manifests, each once, ordered by first
\* occurrence in the fold sequence (root, then agents in traversal order,
\* each manifest's prompts as declared); [x, y] then [y, z] gives [x, y, z].
C2_PromptsFirstSeen ==
    Done =>
        /\ SeqToSet(AggList("prompts")) = SeqToSet(FoldedPrompts)
        /\ NoDuplicates(AggList("prompts"))
        /\ \A j, h \in 1..Len(AggList("prompts")) :
              j < h => FirstIndex(FoldedPrompts, AggList("prompts")[j])
                         < FirstIndex(FoldedPrompts, AggList("prompts")[h])
        /\ XyThenYz => AggList("prompts") = <<sx, sy, sz>>

\* C2 witness: a finished pass over [x, y] then [y, z].
C2_Witness == Done /\ XyThenYz /\ Len(FoldedPrompts) > Len(AggList("prompts"))

\* C3: once the pass is done, every single-key mapping {key: value} among
\* the folded prompts is in the aggregate as value, or as "{key}" when value
\* is null, and exactly once, also when a plain string prompt is the same.
C3_MappingPrompts ==
    Done =>
        \A n \in SeqToSet(FoldNames) : \A j \in 1..Len(PromptsOf(n)) :
            LET p == PromptsOf(n)[j]
                text == IF IsNull(p.items[1].v)
                        THEN <<"{">> \o p.items[1].k \o <<"}">>
                        ELSE p.items[1].v.s
            IN  IsSingleKey(p) =>
                    Cardinality({h \in 1..Len(AggList("prompts")) :
                                    AggList("prompts")[h] = text}) = 1

\* C3 witness: a finished pass that folded {k: null}, a mapping with the
\* value y and the plain string y.
C3_Witness ==
    /\ Done
    /\ \E n \in SeqToSet(FoldNames) : \E j \in 1..Len(PromptsOf(n)) :
          PromptsOf(n)[j] = Dict(<<Item(sk, Null)>>)
    /\ \E n \in SeqToSet(FoldNames) : \E j \in 1..Len(PromptsOf(n)) :
          PromptsOf(n)[j] = Dict(<<Item(sz, Str(sy))>>)
    /\ \E n \in SeqToSet(FoldNames) : \E j \in 1..Len(PromptsOf(n)) :
          PromptsOf(n)[j] = Str(sy)
    /\ Cardinality({n \in SeqToSet(FoldNames) : PromptsOf(n) # <<>>}) = 3
    /\ sBraceK \in SeqToSet(AggList("prompts"))

\* the mcpServers section of a manifest, when it is a mapping
ServersOf(n) ==
    IF IsDict(fs[n].doc) /\ Has(fs[n].doc, "mcpServers")
       /\ IsDict(Get(fs[n].doc, "mcpServers"))
    THEN Get(fs[n].doc, "mcpServers")
    ELSE Dict(<<>>)

\* manifest n declares server k as a mapping
DeclaresServer(n, k) ==
    HasManifest(n) /\ Has(ServersOf(n), k) /\ IsDict(Get(ServersOf(n), k))

\* the agent whose declaration of server k the aggregate keeps: the last
\* one the merge loop visits
Keeper(k) ==
    order[CHOOSE j \in 1..Len(order) :
            /\ DeclaresServer(order[j], k)
            /\ \A h \in (j + 1)..Len(order) : ~DeclaresServer(order[h], k)]

AggServers == Get(merged, "mcpServers")

\* <agents-root>/<agent>/<token>, written out
UnderAgent(agent, token) == AGENTS_DIR \o <<"/">> \o agent \o <<"/">> \o token

\* the rewrite of a token ending in ".py": a relative token goes under the
\* agent's directory, an absolute one is kept
UnderAgentIfRelative(agent, token) ==
    IF IsAbsolute(token) THEN token ELSE UnderAgent(agent, token)

\* the args of the aggregate's server k against those its keeper declared:
\* same length, each token ending in ".py" rewritten (an absolute one too,
\* unless keepAbsolute), each other token passed on
ArgsRewritten(k, keepAbsolute) ==
    LET v == Get(AggServers, k)
        o == Get(ServersOf(Keeper(k)), k)
    IN  /\ Has(v, "args") = Has(o, "args")
        /\ Has(v, "args") =>
              /\ Len(Get(v, "args").v) = Len(Get(o, "args").v)
              /\ \A j \in 1..Len(Get(o, "args").v) :
                    Get(v, "args").v[j].s =
                        IF ~EndsWith(Get(o, "args").v[j].s, DotPy)
                        THEN Get(o, "args").v[j].s
                        ELSE IF keepAbsolute
                        THEN UnderAgentIfRelative(Keeper(k), Get(o, "args").v[j].s)
                        ELSE UnderAgent(Keeper(k), Get(o, "args").v[j].s)

\* no relative token ending in ".py" is left in the aggregate
NoRelativePy ==
    \A k \in Keys(AggServers) :
        (IsDict(Get(AggServers, k)) /\ Has(Get(AggServers, k), "args")) =>
            \A j \in 1..Len(Get(Get(AggServers, k), "args").v) :
                EndsWith(Get(Get(AggServers, k), "args").v[j].s, DotPy)
                    => IsAbsolute(Get(Get(AggServers, k), "args").v[j].s)

C5_NoNullServer ==
    Done => \A k \in Keys(AggServers) :
                /\ ~IsNull(Get(AggServers, k))
                /\ IsDict(Get(AggServers, k))

\* manifest n has the key publish.entrypoint
DeclaresKey(n) == HasManifest(n) /\ Has(PublishOf(n), "entrypoint")

NonEmpty(v) == IsStr(v) /\ v.s # <<>>

\* manifest n declares an entrypoint: the key, with a non-empty string
DeclaresOne(n) == DeclaresKey(n) /\ NonEmpty(Get(PublishOf(n), "entrypoint"))

DeclaredEntrypoint(n) == Get(PublishOf(n), "entrypoint")

AggPublish == Get(merged, "publish")

\* C6: once the pass is done, if some subordinate agent declares an
\* entrypoint then the aggregate's entrypoint is one a subordinate declares;
\* the root manifest's is a fallback only.
C6_RootIsFallbackOnly ==
    Done =>
        ((\E n \in Subordinates : DeclaresOne(n)) =>
            /\ Has(AggPublish, "entrypoint")
            /\ \E n \in Subordinates :
                  DeclaresOne(n) /\ Get(AggPublish, "entrypoint") = DeclaredEntrypoint(n))

\* the manifest with the key publish.entrypoint that the entrypoint scan
\* visits last
LastDeclaring ==
    scanOrder[CHOOSE j \in 1..Len(scanOrder) :
                /\ DeclaresKey(scanOrder[j])
                /\ \A h \in (j + 1)..Len(scanOrder) : ~DeclaresKey(scanOrder[h])]

SeveralDeclareKey == Cardinality({n \in AgentNames : DeclaresKey(n)}) > 1

StrList(x) == IsList(x) /\ \A j \in 1..Len(x.v) : IsStr(x.v[j])

\* a server declaration that is null or a mapping whose args, if any, are a
\* list of strings
PlainServer(v) ==
    IsNull(v) \/ (IsDict(v) /\ (Has(v, "args") => StrList(Get(v, "args"))))

\* every manifest is a mapping whose publish section, if any, is a mapping
\* and whose servers, if any, are plain
AllMappings ==
    \A n \in AgentNames :
        fs[n].kind \in {"notdir", "nomanifest"}
        \/ /\ fs[n].kind = "doc"
           /\ IsDict(fs[n].doc)
           /\ Has(fs[n].doc, "publish") => IsDict(Get(fs[n].doc, "publish"))
           /\ \A k \in Keys(ServersOf(n)) : PlainServer(Get(ServersOf(n), k))

\* C8: the aggregate has at most one entrypoint; with no subordinate
\* declaring one and the root declaring E it is E; with no manifest declaring
\* one the key is absent, never there with a null or empty value, and the
\* pass does not fail for it.
C8_FallbackOrAbsent ==
    /\ Done =>
          /\ Cardinality({j \in 1..Len(AggPublish.items) :
                            AggPublish.items[j].k = "entrypoint"}) <= 1
          /\ ((\A n \in Subordinates : ~DeclaresOne(n)) /\ DeclaresOne(MAIN_AGENT_NAME))
                => /\ Has(AggPublish, "entrypoint")
                   /\ Get(AggPublish, "entrypoint") = DeclaredEntrypoint(MAIN_AGENT_NAME)
          /\ (\A n \in AgentNames : ~DeclaresOne(n)) => ~Has(AggPublish, "entrypoint")
          /\ Has(AggPublish, "entrypoint") => NonEmpty(Get(AggPublish, "entrypoint"))
    /\ pc = "failed" => ~(AllMappings /\ \A n \in AgentNames : ~DeclaresOne(n))

\* C8 witness: a finished pass where only the root declares an entrypoint,
\* a subordinate has the key with an empty value, and the root's is taken.
C8_Witness ==
    /\ Done
    /\ DeclaresOne(MAIN_AGENT_NAME)
    /\ \A n \in Subordinates : ~DeclaresOne(n)
    /\ \E n \in Subordinates : DeclaresKey(n)
    /\ Get(AggPublish, "entrypoint") = Str(MAIN_AGENT_NAME)

AnyMalformed == \E n \in AgentNames : fs[n].kind = "malformed"

\* C9: with a manifest that does not parse among those the pass visits, the
\* call fails before it opens the output file, which stays as it was: not
\* created, not truncated, not rewritten.
C9_MalformedAborts ==
    AnyMalformed =>
        /\ out = out0
        /\ pc \in {"root", "merge", "failed"}
        /\ pc = "merge" => idx <= Len(order)

\* C9 witness: a pass that failed on a manifest that does not parse, with
\* the earlier output file still in place.
C9_Witness ==
    /\ pc = "failed"
    /\ err.type = "YAMLError"
    /\ out0 = HandWritten
    /\ out = out0

\* the first manifest the pass loads that does not parse
FirstMalformed ==
    IF fs[MAIN_AGENT_NAME].kind = "malformed" THEN MAIN_AGENT_NAME
    ELSE order[CHOOSE j \in 1..Len(order) :
                 /\ fs[order[j]].kind = "malformed"
                 /\ \A h \in 1..(j - 1) : fs[order[h]].kind # "malformed"]

\* C10: the error of a pass that fails on a manifest that does not parse
\* names that manifest's file, <agents-root>/<agent>/nanobot.yaml.
C10_ErrorNamesManifest ==
    (pc = "failed" /\ err.type = "YAMLError") =>
        /\ AnyMalformed
        /\ err.name = UnderAgent(FirstMalformed, YamlFileName)

\* C10 witness: a pass that failed on a subordinate's manifest, after it
\* had folded the root manifest.
C10_Witness ==
    /\ pc = "failed"
    /\ err.type = "YAMLError"
    /\ HasManifest(MAIN_AGENT_NAME)
    /\ \E n \in Subordinates : err.name = UnderAgent(n, YamlFileName)

\* an entry of the agents directory the loops pass over: not a directory, or
\* a directory without nanobot.yaml
Skipped(n) == fs[n].kind \in {"notdir", "nomanifest"}

\* a traversal order with the entries the loops pass over removed
Kept(ord) == SelectSeq(ord, LAMBDA n : ~Skipped(n))

\* the pass has ended, with merged written or with an exception
Ended == pc \in {"done", "failed"}

\* C11: entries of the agents directory that are not directories, agent
\* directories without nanobot.yaml and an absent root manifest are passed
\* over without error: the pass ends as the pass over the same directory
\* without those entries does, failing only if that one fails, and with the
\* same aggregate.
C11_SkipsAreTransparent ==
    Ended =>
        LET r == PassOutcome(Kept(order), Kept(scanOrder))
        IN  /\ (pc = "failed") = (r.exc # "")
            /\ pc = "failed" => err.type = r.exc
            /\ pc = "done" => merged = r.m

\* C11 witness: a finished pass over a directory without root manifest, with
\* an entry that is not a directory and a subordinate's manifest folded.
C11_Witness ==
    /\ Done
    /\ ~Exists(MAIN_AGENT_YAML)
    /\ \E n \in Subordinates : fs[n].kind = "notdir"
    /\ \E n \in AgentNames : fs[n].kind = "nomanifest"
    /\ \E n \in Subordinates : HasManifest(n) /\ AggList("tools") = <<sa>>

\* the agents section of a manifest, when it is a mapping
AgentsOf(n) ==
    IF IsDict(fs[n].doc) /\ Has(fs[n].doc, "agents") /\ IsDict(Get(fs[n].doc, "agents"))
    THEN Get(fs[n].doc, "agents")
    ELSE Dict(<<>>)

DeclaresAgent(n, k) == HasManifest(n) /\ Has(AgentsOf(n), k)

\* the manifests in the order the pass processes them: the main agent's
\* first, then that of every agent directory, "app" too, in traversal order
Processed ==
    (IF HasManifest(MAIN_AGENT_NAME) THEN <<MAIN_AGENT_NAME>> ELSE <<>>)
    \o SelectSeq(order, HasManifest)

\* the manifest processed last among those that declare agent k
LastDeclaringAgent(k) ==
    Processed[CHOOSE j \in 1..Len(Processed) :
                /\ DeclaresAgent(Processed[j], k)
                /\ \A h \in (j + 1)..Len(Processed) : ~DeclaresAgent(Processed[h], k)]

AggAgents == Get(merged, "agents")

\* C12: once the pass is done, the keys of the aggregate's agents map are
\* the union of the agents keys of the folded manifests, and each key has
\* the definition of the manifest processed last among those declaring it.
C12_AgentsLastProcessedWins ==
    Done =>
        /\ Keys(AggAgents) = UNION {Keys(AgentsOf(n)) : n \in SeqToSet(Processed)}
        /\ \A k \in Keys(AggAgents) :
              Get(AggAgents, k) = Get(AgentsOf(LastDeclaringAgent(k)), k)

\* C12 witness: a finished pass where the root and two subordinates declare
\* agent a1 and a subordinate, processed last, has its definition kept.
C12_Witness ==
    /\ Done
    /\ \A n \in AgentNames : DeclaresAgent(n, "a1")
    /\ LastDeclaringAgent("a1") # MAIN_AGENT_NAME
    /\ Get(AggAgents, "a1") = AgentDef(LastDeclaringAgent("a1"))
    /\ Has(AggAgents, "a2")

\* the output file the pass found is one an earlier pass wrote
SecondPass == out0.exists /\ out0.content # <<>> /\ out0.content[1] = Banner

\* C13: a second pass over the same manifests in the same traversal order
\* writes the file the first one wrote, and what a pass writes is a
\* function of the manifests and the order alone, whatever file it found.
C13_SecondPassWritesSame ==
    Done =>
        /\ SecondPass => out = out0
        /\ out = File(<<Banner>> \o Dump(PassOutcome(order, scanOrder).m))

\* C13 witness: a second pass has finished, over manifests with servers,
\* and left the file as the first one wrote it.
C13_Witness ==
    /\ Done
    /\ SecondPass
    /\ out = out0
    /\ Keys(AggServers) # {}

\* the entries of the agents directory in ascending order of name
NameOrder == SortSet(AgentNames)

\* C14: the agent directories are folded in ascending order of directory
\* name: whatever order the file system lists them in, the aggregate of a
\* finished pass is the one of the pass that visits them in name order.
C14_FoldedInNameOrder ==
    Done => merged = PassOutcome(NameOrder, NameOrder).m

EmptyDocument(n) == fs[n].kind = "doc" /\ IsNull(fs[n].doc)

NullPublish(n) ==
    fs[n].kind = "doc" /\ IsDict(fs[n].doc) /\ Has(fs[n].doc, "publish")
    /\ IsNull(Get(fs[n].doc, "publish"))

\* the entry n is passed over, or its manifest parses and is at most
\* incomplete: an empty document, or a mapping where publish is absent, null
\* or a mapping of lists, agents is absent or a mapping, and mcpServers is
\* absent or a mapping of plain servers
Incomplete(n) ==
    \/ Skipped(n)
    \/ EmptyDocument(n)
    \/ /\ fs[n].kind = "doc"
       /\ IsDict(fs[n].doc)
       /\ Has(fs[n].doc, "publish") =>
             \/ IsNull(Get(fs[n].doc, "publish"))
             \/ /\ IsDict(Get(fs[n].doc, "publish"))
                /\ \A f \in {"tools", "resources", "resourceTemplates"} :
                      Has(PublishOf(n), f) => StrList(Get(PublishOf(n), f))
                /\ Has(PublishOf(n), "prompts") => IsList(Get(PublishOf(n), "prompts"))
       /\ Has(fs[n].doc, "agents") => IsDict(Get(fs[n].doc, "agents"))
       /\ Has(fs[n].doc, "mcpServers") =>
             /\ IsDict(Get(fs[n].doc, "mcpServers"))
             /\ \A k \in Keys(ServersOf(n)) : PlainServer(Get(ServersOf(n), k))

\* C15: manifests that parse but are incomplete (an empty document, a
\* missing publish, agents or mcpServers, a null publish, missing sub-lists)
\* do not make the pass fail.
C15_IncompleteTolerated ==
    (\A n \in AgentNames : Incomplete(n)) => pc # "failed"

\* C15, for manifests that are mappings and whose publish is not null: the
\* property holds.
C15_MissingPartsTolerated ==
    (\A n \in AgentNames : Incomplete(n) /\ ~EmptyDocument(n) /\ ~NullPublish(n))
        => pc # "failed"

\* the tool names of a publish section written as a bare list
BareTools(n) ==
    {Get(fs[n].doc, "publish").v[j].s : j \in 1..Len(Get(fs[n].doc, "publish").v)}

\* C16: a publish section written as a bare list of tool names, in the root
\* manifest or a subordinate's, gives the aggregate's tools what
\* publish: {tools: L} would, and does not make the pass fail.
C16_BareListIsTools ==
    /\ Done => \A n \in SeqToSet(Processed) :
                  BareList(n) => BareTools(n) \subseteq SeqToSet(AggList("tools"))
    /\ (\A n \in AgentNames :
            \/ BareList(n) /\ StrList(Get(fs[n].doc, "publish"))
            \/ Incomplete(n) /\ ~EmptyDocument(n) /\ ~NullPublish(n))
        => pc # "failed"

\* C16, for the root manifest alone: its bare list is in the aggregate's
\* tools.
C16_RootBareListIsTools ==
    (Done /\ BareList(MAIN_AGENT_NAME)) =>
        BareTools(MAIN_AGENT_NAME) \subseteq SeqToSet(AggList("tools"))

\* manifest n declares server k with a value that is neither null nor a
\* mapping
DeclaresOddServer(n, k) ==
    HasManifest(n) /\ Has(ServersOf(n), k)
    /\ ~IsNull(Get(ServersOf(n), k)) /\ ~IsDict(Get(ServersOf(n), k))

\* every manifest is a mapping that has at most an mcpServers section, a
\* mapping whose values are plain servers, strings or lists of strings
OnlyServers(n) ==
    \/ Skipped(n)
    \/ /\ fs[n].kind = "doc"
       /\ IsDict(fs[n].doc)
       /\ Keys(fs[n].doc) \subseteq {"mcpServers"}
       /\ \A k \in Keys(ServersOf(n)) :
             \/ PlainServer(Get(ServersOf(n), k))
             \/ IsStr(Get(ServersOf(n), k))
             \/ StrList(Get(ServersOf(n), k))

\* C17: a server whose value is neither null nor a mapping, be it a string
\* or a list and contain it "args" or not, leaves no key in the aggregate
\* (unless some manifest declares a mapping under the name), and the pass
\* does not raise over it.
C17_NonMappingDropped ==
    /\ Done => \A k \in {"s1", "s2", "s3"} :
                  ((\E n \in AgentNames : DeclaresOddServer(n, k))
                   /\ ~\E n \in AgentNames : DeclaresServer(n, k))
                      => ~Has(AggServers, k)
    /\ (\A n \in AgentNames : OnlyServers(n)) => pc # "failed"

\* C17, for subordinates' servers that do not contain "args": they are
\* dropped and the pass does not raise.
C17_SubordinatePlainDropped ==
    (/\ \A n \in AgentNames : OnlyServers(n)
     /\ \A k \in Keys(ServersOf(MAIN_AGENT_NAME)) : ~DeclaresOddServer(MAIN_AGENT_NAME, k)
     /\ \A n \in AgentNames : \A k \in Keys(ServersOf(n)) :
           DeclaresOddServer(n, k) => ~HasArgs(Get(ServersOf(n), k)))
    => /\ pc # "failed"
       /\ Done => \A k \in Keys(AggServers) : IsDict(Get(AggServers, k)) \/ IsNull(Get(AggServers, k))

\* how many mappings and sequences are open before position j of a file
Depth(content, j) ==
    Cardinality({h \in 1..(j - 1) : content[h].ev \in {"mapping-start", "sequence-start"}})
    - Cardinality({h \in 1..(j - 1) : content[h].ev \in {"mapping-end", "sequence-end"}})

\* the keys of the outermost mapping of a file, in the order written
TopKeys(content) ==
    LET at == SelectSeq([j \in 1..Len(content) |-> j],
                        LAMBDA j : content[j].ev = "key" /\ Depth(content, j) = 1)
    IN  [h \in 1..Len(at) |-> content[at[h]].k]

Comments(content) == {j \in 1..Len(content) : content[j].ev = "comment"}

\* C18: after a finished pass the output file is one banner comment line,
\* then the serialization of this pass's aggregate, its top-level keys in
\* the order publish, agents, mcpServers; nothing the file held before is
\* left, whatever it held.
C18_BannerThenAggregate ==
    Done =>
        /\ out.exists
        /\ out.content # <<>>
        /\ out.content[1] = Banner
        /\ Comments(out.content) = {1}
        /\ Tail(out.content) = Dump(merged)
        /\ TopKeys(out.content) = <<"publish", "agents", "mcpServers">>

\* C18 witness: a finished pass that found a hand-written file and left a
\* generated one with an entrypoint, agents and servers sections in it.
C18_Witness ==
    /\ Done
    /\ out0 = HandWritten
    /\ out # out0
    /\ out.content[1] = Banner
    /\ Has(AggPublish, "entrypoint")
    /\ Len(out.content) > Len(out0.content)

\* C19: in the startup hook the pass is called once and has written the
\* whole output file before nanobot is launched; nanobot is never launched
\* before or during the pass.
C19_MergeBeforeLaunch ==
    /\ calls <= 1
    /\ hook \in {"startup", "merging", "raised"} => nanobot_process = "None"
    /\ (nanobot_process # "None" \/ hook \in {"serving", "stopped"}) =>
          /\ calls = 1
          /\ pc = "done"
          /\ out = File(<<Banner>> \o Dump(merged))

\* C19 witness: nanobot runs, after a pass that replaced a hand-written
\* output file.
C19_Witness ==
    /\ hook = "serving"
    /\ nanobot_process = "running"
    /\ pc = "done"
    /\ out0 = HandWritten
    /\ out # out0

\* the normalized forms of a prompt entry: the string itself; for a mapping,
\* of each of its keys the value, or the key in braces when the value is
\* null; none for an empty mapping or any other value
Forms(p) ==
    IF IsStr(p) THEN {p.s}
    ELSE IF IsDict(p)
    THEN {TemplateStr(p.items[j].k, p.items[j].v) : j \in 1..Len(p.items)}
    ELSE {}

\* C20: no declared prompt is dropped silently: once the pass is done, every
\* prompt entry of every folded manifest, a mapping with several keys
\* included, is in the aggregate's prompts in normalized form (an entry
\* without such a form makes the pass fail).
C20_NoPromptDropped ==
    Done => \A n \in SeqToSet(Processed) : \A j \in 1..Len(PromptsOf(n)) :
                /\ Forms(PromptsOf(n)[j]) # {}
                /\ Forms(PromptsOf(n)[j]) \subseteq SeqToSet(AggList("prompts"))

\* C20, for prompts that are strings or single-key mappings: none is dropped.
C20_NormalizableKept ==
    Done => \A n \in SeqToSet(Processed) : \A j \in 1..Len(PromptsOf(n)) :
                Normalizable(PromptsOf(n)[j]) =>
                    Normal(PromptsOf(n)[j]) \in SeqToSet(AggList("prompts"))

\* the subordinate agents that declare agent k, in traversal order
SubordinatesDeclaringAgent(k) ==
    SelectSeq(order, LAMBDA n : n # MAIN_AGENT_NAME /\ DeclaresAgent(n, k))

\* the subordinate agents that declare server k as a mapping, in traversal
\* order
SubordinatesDeclaringServer(k) ==
    SelectSeq(order, LAMBDA n : n # MAIN_AGENT_NAME /\ DeclaresServer(n, k))

Last(xs) == xs[Len(xs)]

\* C21: the root manifest is folded before every subordinate and not again,
\* so once the pass is done a key of agents or mcpServers that the root and
\* a subordinate both declare has the subordinate's value (that of the
\* subordinate visited last), in every traversal order.
C21_SubordinateWinsCollision ==
    Done =>
        /\ \A k \in Keys(AgentsOf(MAIN_AGENT_NAME)) :
              (DeclaresAgent(MAIN_AGENT_NAME, k) /\ SubordinatesDeclaringAgent(k) # <<>>) =>
                  Get(AggAgents, k) =
                      Get(AgentsOf(Last(SubordinatesDeclaringAgent(k))), k)
        /\ \A k \in Keys(ServersOf(MAIN_AGENT_NAME)) :
              (DeclaresServer(MAIN_AGENT_NAME, k) /\ SubordinatesDeclaringServer(k) # <<>>) =>
                  Get(AggServers, k) =
                      AdjustServer(Last(SubordinatesDeclaringServer(k)),
                                   Get(ServersOf(Last(SubordinatesDeclaringServer(k))), k))

\* C21, for traversal orders that visit the app directory first: the
\* subordinate's value is the one kept.
C21_SubordinateWinsAfterApp ==
    (Done /\ order[1] = MAIN_AGENT_NAME) =>
        /\ \A k \in Keys(AgentsOf(MAIN_AGENT_NAME)) :
              (DeclaresAgent(MAIN_AGENT_NAME, k) /\ SubordinatesDeclaringAgent(k) # <<>>) =>
                  Get(AggAgents, k) =
                      Get(AgentsOf(Last(SubordinatesDeclaringAgent(k))), k)
        /\ \A k \in Keys(ServersOf(MAIN_AGENT_NAME)) :
              (DeclaresServer(MAIN_AGENT_NAME, k) /\ SubordinatesDeclaringServer(k) # <<>>) =>
                  Get(AggServers, k) =
                      AdjustServer(Last(SubordinatesDeclaringServer(k)),
                                   Get(ServersOf(Last(SubordinatesDeclaringServer(k))), k))

\* the positions of the merge loop's traversal whose manifest has been folded
FoldedTurns == {j \in 1..(idx - 1) : HasManifest(order[j])}

\* the directory whose manifest the merge loop folded last
FoldedLast == order[CHOOSE j \in FoldedTurns : \A h \in FoldedTurns : h <= j]

\* C22 as stated: adjust_mcp_paths is pure: after a turn of the merge loop
\* the document that was loaded, whose mcpServers mapping was passed to
\* adjust_mcp_paths, is as the manifest declares it, server records and args
\* lists included.
C22_ArgumentUnchanged ==
    (pc = "merge" /\ FoldedTurns # {}) => agentYaml = fs[FoldedLast].doc

\* C22 amended: adjust_mcp_paths rewrites in place: after a turn of the merge
\* loop the mapping that was passed holds the rewritten args, it is the value
\* returned, and nothing else of the loaded document has changed.
C22_ArgsRewrittenInPlace ==
    (pc = "merge" /\ FoldedTurns # {}) =>
        LET d == fs[FoldedLast].doc
        IN  IF ~Adjusts(d) THEN agentYaml = d
            ELSE /\ agentYaml = DictSet(d, "mcpServers", Get(agentYaml, "mcpServers"))
                 /\ Get(agentYaml, "mcpServers")
                        = adjust_mcp_paths(FoldedLast, Get(d, "mcpServers"))
                 /\ \A k \in Keys(Get(agentYaml, "mcpServers")) :
                       IsDict(Get(Get(agentYaml, "mcpServers"), k)) =>
                           Get(AggServers, k) = Get(Get(agentYaml, "mcpServers"), k)

\* C22 witness: the merge loop has folded a manifest with a server whose args
\* hold t.py, and the mapping passed to adjust_mcp_paths no longer holds it.
C22_Witness ==
    /\ pc = "merge"
    /\ FoldedTurns # {}
    /\ DeclaresServer(FoldedLast, "s1")
    /\ Get(Get(ServersOf(FoldedLast), "s1"), "args").v[2].s = tRel
    /\ agentYaml # fs[FoldedLast].doc
    /\ Get(Get(Get(agentYaml, "mcpServers"), "s1"), "args").v[2].s
           = UnderAgent(FoldedLast, tRel)

\* the mapping adjust_mcp_paths has rewritten in the last turn of the merge
\* loop
Rewritten == Get(agentYaml, "mcpServers")

\* the merge loop has just rewritten a mapping with a token ending in ".py"
\* in some server's args
RewrittenPy ==
    /\ pc = "merge"
    /\ FoldedTurns # {}
    /\ Adjusts(agentYaml)
    /\ \E k \in Keys(Rewritten) :
          /\ IsDict(Get(Rewritten, k))
          /\ Has(Get(Rewritten, k), "args")
          /\ \E j \in 1..Len(Get(Get(Rewritten, k), "args").v) :
                EndsWith(Get(Get(Rewritten, k), "args").v[j].s, DotPy)

\* C23 as stated: adjust_mcp_paths applied a second time, with the same agent
\* name, to a mapping it has rewritten and that holds a token ending in ".py"
\* gives a result that differs from the result of applying it once.
C23_SecondRewriteDiffers ==
    RewrittenPy => adjust_mcp_paths(FoldedLast, Rewritten) # Rewritten

\* C23 amended: adjust_mcp_paths applied a second time to a mapping it has
\* rewritten returns that mapping as it is, with the same agent name or with
\* another one: a rewritten token is an absolute path, and joining an
\* absolute path to <agents-root>/<agent> gives that path.
C23_SecondRewriteSame ==
    (pc = "merge" /\ FoldedTurns # {} /\ Adjusts(agentYaml)) =>
        \A n \in AgentNames :
            /\ ~AdjustRaises(Rewritten)
            /\ adjust_mcp_paths(n, Rewritten) = Rewritten

\* C23 witness: the merge loop has rewritten t.py of server s1 to
\* <agents-root>/<agent>/t.py, and a second rewrite leaves it so.
C23_Witness ==
    /\ RewrittenPy
    /\ DeclaresServer(FoldedLast, "s1")
    /\ Get(Get(ServersOf(FoldedLast), "s1"), "args").v[2].s = tRel
    /\ Get(Get(Rewritten, "s1"), "args").v[2].s = UnderAgent(FoldedLast, tRel)
    /\ Get(Get(adjust_mcp_paths(FoldedLast, Rewritten), "s1"), "args").v[2].s
           = UnderAgent(FoldedLast, tRel)

\* how often the pass has called adjust_mcp_paths on the mcpServers of
\* directory n
TimesAdjusted(n) ==
    Cardinality({j \in 1..Len(adjustCalls) : adjustCalls[j].dir = n})

\* C24: once the pass is done, adjust_mcp_paths has been called exactly once
\* on the mcpServers of every manifest that has the key, the root's included,
\* each time with the name of the manifest's own directory, and every server
\* record of the aggregate is its keeper's declaration rewritten by that one
\* call, never a declaration as written or one rewritten again.
C24_RewrittenExactlyOnce ==
    Done =>
        /\ \A j \in 1..Len(adjustCalls) : adjustCalls[j].agent_name = adjustCalls[j].dir
        /\ \A n \in AgentNames :
              TimesAdjusted(n) = IF HasManifest(n) /\ Adjusts(fs[n].doc) THEN 1 ELSE 0
        /\ \A k \in Keys(AggServers) :
              IsDict(Get(AggServers, k)) =>
                  /\ \E n \in AgentNames : DeclaresServer(n, k)
                  /\ TimesAdjusted(Keeper(k)) = 1
                  /\ Get(AggServers, k) =
                        AdjustServer(Keeper(k), Get(ServersOf(Keeper(k)), k))

\* C24 witness: a finished pass whose aggregate holds the root manifest's
\* server s1, which the root step copied as written, with t.py rewritten once
\* under the app directory, and a subordinate's server.
C24_Witness ==
    /\ Done
    /\ DeclaresServer(MAIN_AGENT_NAME, "s1")
    /\ Keeper("s1") = MAIN_AGENT_NAME
    /\ TimesAdjusted(MAIN_AGENT_NAME) = 1
    /\ Get(Get(AggServers, "s1"), "args").v[2].s = UnderAgent(MAIN_AGENT_NAME, tRel)
    /\ \E k \in Keys(AggServers) : IsDict(Get(AggServers, k)) /\ Keeper(k) # MAIN_AGENT_NAME
    /\ Len(adjustCalls) = Cardinality(AgentNames)

\* every pass of the concurrent run has ended, and one at least has written
BothEnded ==
    /\ \A p \in Writers : writers[p].pc \in {"done", "failed"}
    /\ \E p \in Writers : writers[p].pc = "done"

\* the pass that wrote OUTPUT_YAML last
LastWriter == CHOOSE p \in Writers : writers[p].turn = Turns

\* the complete output of pass p
OutputOf(p) == File(<<Banner>> \o Dump(writers[p].merged))

\* C25: when two passes have run at the same time on the same output path,
\* the file holds the complete output of the pass that wrote last, never a
\* mixture of the two outputs.
C25_LastWriterWins ==
    BothEnded => out = OutputOf(LastWriter)

\* C25, for passes whose outputs have the same length: the file holds the
\* complete output of the pass that wrote last.
C25_LastWriterWinsSameLength ==
    (BothEnded /\ \A p, q \in Writers :
                    writers[p].pc = "done" /\ writers[q].pc = "done" =>
                        Len(OutputOf(p).content) = Len(OutputOf(q).content))
        => out = OutputOf(LastWriter)

\* the whole output of the pass that was writing
FullOutput == <<Banner>> \o Dump(merged)

\* C26: the write is not atomic: a pass stopped after it has opened the
\* output file and before the dump is complete leaves the file truncated
\* (empty, the banner only, or another strict prefix of the whole output),
\* and what the file held before, the complete output of an earlier pass
\* included, is gone.
C26_InterruptLeavesTruncated ==
    pc = "interrupted" =>
        /\ out.exists
        /\ Len(out.content) < Len(FullOutput)
        /\ out.content = SubSeq(FullOutput, 1, Len(out.content))
        /\ out # out0

\* C26 witness: a second pass was stopped while it wrote: the file holds the
\* banner and a part of the dump, and no longer the first pass's whole output.
C26_Witness ==
    /\ pc = "interrupted"
    /\ SecondPass
    /\ out0.content = FullOutput
    /\ Len(out.content) > 1
    /\ Len(out.content) < Len(out0.content)

\* C27: a pass that fails in the startup hook, on a manifest that does not
\* parse or on the output file that cannot be written, is not called again,
\* its exception leaves the hook, and nanobot is not launched in that startup.
C27_FailureLeavesHook ==
    /\ calls <= 1
    /\ pc = "failed" =>
          /\ err.type # ""
          /\ calls = 1
          /\ hook \in {"merging", "raised"}
          /\ nanobot_process = "None"
    /\ hook = "raised" => nanobot_process = "None" /\ pc \in {"failed", "done"}

\* C27 witness: the pass could not write the dump, the exception has left the
\* hook, and nanobot is not running.
C27_Witness ==
    /\ hook = "raised"
    /\ pc = "failed"
    /\ err.type = "OSError"
    /\ out.content = <<Banner>>
    /\ nanobot_process = "None"

\* C27 witness of the other kind of failure: a manifest did not parse.
C27_WitnessParse ==
    /\ hook = "raised"
    /\ pc = "failed"
    /\ err.type = "YAMLError"
    /\ nanobot_process = "None"

\* the paths the pass reads: the root manifest and every agent's manifest
ManifestPaths == {MAIN_AGENT_YAML} \cup {AgentYamlPath(n) : n \in AgentNames}

\* C28: no step of a pass, of one that succeeds or of one that fails, changes
\* what is on disk in the agents directory: every manifest is after the step
\* as it was before; and the path the pass writes is none of the paths it
\* reads.
C28_ManifestsUntouched ==
    [][fs' = fs /\ OUTPUT_YAML \notin ManifestPaths]_vars

\* C28 witness: a pass over three manifests has created the output file and
\* is done.
C28_Witness ==
    /\ Done
    /\ \A n \in AgentNames : HasManifest(n)
    /\ ~out0.exists
    /\ out.exists
    /\ out.content # <<>>

\* the traversal order with the app directory left out
OrderWithoutApp == SelectSeq(order, LAMBDA n : n # MAIN_AGENT_NAME)

\* the aggregate of lines 33-99 when the root manifest is folded in the root
\* step only and the merge loop, given ord, passes over the app directory
RootFoldedOnce(ord) == DedupOutcome(MergeLoop(ord, 1, RootOutcome))

\* C29: folding the root manifest twice, in the root step and again when the
\* merge loop reaches the app directory, gives a finished pass the same
\* publish.tools, prompts, resources and resourceTemplates as folding it in
\* the root step only.
C29_SecondRootFoldAddsNothing ==
    Done =>
        LET once == RootFoldedOnce(OrderWithoutApp)
        IN  /\ once.exc = ""
            /\ \A j \in 1..Len(PubFields) :
                  Pub(merged, PubFields[j]) = Pub(once.m, PubFields[j])

\* C29 witness: a finished pass whose merge loop reached the app directory
\* after a subordinate's, the root manifest declaring prompts and the
\* subordinate other ones.
C29_Witness ==
    /\ Done
    /\ order[1] # MAIN_AGENT_NAME
    /\ HasManifest(order[1])
    /\ PromptsOf(MAIN_AGENT_NAME) = Strs(<<sx, sy>>).v
    /\ PromptsOf(order[1]) = Strs(<<sy, sz>>).v
    /\ AggList("prompts") = <<sx, sy, sz>>

\* what has become of the processes the startup loop launched
Launched == {a \in AgentIds : procs[a] # "none"}

\* C30: once the lifespan is over, by a shutdown or by a startup that raised
\* partway, every process the startup launched has been sent SIGINT and
\* waited on, and nanobot_processes is empty: no launched process is left
\* running.
C30_NoProcessLeftRunning ==
    hook \in {"stopped", "raised"} =>
        /\ \A a \in Launched : procs[a] = "waited"
        /\ nanobot_processes = <<>>

\* C30, for a lifespan that ends by a shutdown: every launched process has
\* been sent SIGINT and waited on, and nanobot_processes is empty.
C30_ShutdownStopsAll ==
    hook = "stopped" =>
        /\ Launched = SeqToSet(agents)
        /\ \A a \in Launched : procs[a] = "waited"
        /\ nanobot_processes = <<>>

====
